---- MODULE Spec2Model ----
(***************************************************************************)
(* A state-machine model of src/src/App.tsx (FaceGlobeV15): the React      *)
(* component that builds a three.js globe once, refreshes its overlays     *)
(* from three scalar parameters, and turns it with quaternion commands.    *)
(*                                                                         *)
(* Units.  Angles of the control panel are kept in hundredths of a degree  *)
(* (33.56 deg = 3356), lengths in tenths (RADIUS 1.5 = 15), the arc-length *)
(* scale in percent.  Positions and radian values are fixed-point numbers  *)
(* in units of 1e-8.  Orientation quaternions are exact: a component is a  *)
(* pair <<a, b>> standing for (a + b*sqrt(2))/2, which is closed under the *)
(* rotations by multiples of 90 degrees about the coordinate axes.         *)
(***************************************************************************)
EXTENDS Integers, Sequences, FiniteSets, TLC

(***************************************************************************)
(* Program constants                                                       *)
(***************************************************************************)
RADIUS == 15
\* SURFACE_OFFSET = 1.0008, in ten-thousandths
SURFACE_OFFSET == 10008
SEGMENTS == 360
MaxAttempts == 400
DefaultArcLengthScale == 100
DefaultArcStepPercent == 5
DefaultContactAngleDeg == 3356
DefaultContactAngleStep == 100
DefaultIntersectionAngleDeg == 3000
DefaultIntersectionAngleStep == 100
DefaultStepDeg == 500
ContactMin == 10
ContactMax == 8990
IntersectionMax == 9000
ArcMax == 200
MinStep == 10
MinArcStep == 1
CameraZ == 52

(***************************************************************************)
(* Bounds of the model                                                     *)
(***************************************************************************)
MaxEvents == 3
MaxTurn == 20
MaxNow == 125
\* the contact-angle steps typed in the walk over the contact angles are the
\* first MaxProbe multiples of ProbeGrain hundredths of a degree
MaxProbe == 76
ProbeGrain == 75

Max(a, b) == IF a >= b THEN a ELSE b
Min(a, b) == IF a <= b THEN a ELSE b

(***************************************************************************)
(* Exact numbers a + b*sqrt(2), as pairs <<a, b>>                          *)
(***************************************************************************)
ZAdd(p, q) == <<p[1] + q[1], p[2] + q[2]>>
ZNeg(p) == <<-p[1], -p[2]>>
ZSub(p, q) == ZAdd(p, ZNeg(q))
ZMul(p, q) == <<p[1] * q[1] + 2 * p[2] * q[2], p[1] * q[2] + p[2] * q[1]>>
ZInt(n) == <<n, 0>>
\* exact division by two (the operands met here are always even)
ZHalf(p) == <<p[1] \div 2, p[2] \div 2>>
ZZero == <<0, 0>>

(***************************************************************************)
(* Quaternions [x, y, z, w], every component in halves                     *)
(***************************************************************************)
Quat(x, y, z, w) == [x |-> x, y |-> y, z |-> z, w |-> w]

\* sin and cos of half the angle, in halves; angles in whole degrees
SinHalf(deg) ==
  CASE deg = 0 -> <<0, 0>>
    [] deg = 90 -> <<0, 1>>
    [] deg = 180 -> <<2, 0>>
    [] deg = 270 -> <<0, 1>>
    [] deg = -90 -> <<0, -1>>
    [] deg = -180 -> <<-2, 0>>

CosHalf(deg) ==
  CASE deg = 0 -> <<2, 0>>
    [] deg = 90 -> <<0, 1>>
    [] deg = 180 -> <<0, 0>>
    [] deg = 270 -> <<0, -1>>
    [] deg = -90 -> <<0, 1>>
    [] deg = -180 -> <<0, 0>>

\* THREE.Quaternion.setFromAxisAngle(axis, angle); axis an integer unit vector
setFromAxisAngle(axis, deg) ==
  LET s == SinHalf(deg)
  IN Quat(ZMul(ZInt(axis[1]), s), ZMul(ZInt(axis[2]), s),
          ZMul(ZInt(axis[3]), s), CosHalf(deg))

\* a component-wise product
multiplyScalars(a, b) ==
  Quat(ZHalf(ZMul(a.x, b.x)), ZHalf(ZMul(a.y, b.y)), ZHalf(ZMul(a.z, b.z)),
       ZHalf(ZMul(a.w, b.w)))

\* THREE.Quaternion.multiply: a * b
multiply(a, b) ==
  Quat(ZHalf(ZAdd(ZAdd(ZMul(a.x, b.w), ZMul(a.w, b.x)),
                  ZSub(ZMul(a.y, b.z), ZMul(a.z, b.y)))),
       ZHalf(ZAdd(ZAdd(ZMul(a.y, b.w), ZMul(a.w, b.y)),
                  ZSub(ZMul(a.z, b.x), ZMul(a.x, b.z)))),
       ZHalf(ZAdd(ZAdd(ZMul(a.z, b.w), ZMul(a.w, b.z)),
                  ZSub(ZMul(a.x, b.y), ZMul(a.y, b.x)))),
       ZHalf(ZSub(ZSub(ZMul(a.w, b.w), ZMul(a.x, b.x)),
                  ZAdd(ZMul(a.y, b.y), ZMul(a.z, b.z)))))

\* new THREE.Quaternion().setFromEuler(new THREE.Euler(0, -PI/2, 0, "XYZ"))
defaultQuat == Quat(<<0, 0>>, <<0, -1>>, <<0, 0>>, <<0, 1>>)

\* THREE.Vector3.applyQuaternion: v + w*t + q x t with t = 2 (q x v);
\* v an integer vector, the result a vector of exact numbers
applyQuaternion(v, q) ==
  LET vx == ZInt(v[1])
      vy == ZInt(v[2])
      vz == ZInt(v[3])
      tx == ZSub(ZMul(q.y, vz), ZMul(q.z, vy))
      ty == ZSub(ZMul(q.z, vx), ZMul(q.x, vz))
      tz == ZSub(ZMul(q.x, vy), ZMul(q.y, vx))
  IN << ZAdd(vx, ZHalf(ZAdd(ZMul(q.w, tx), ZSub(ZMul(q.y, tz), ZMul(q.z, ty))))),
        ZAdd(vy, ZHalf(ZAdd(ZMul(q.w, ty), ZSub(ZMul(q.z, tx), ZMul(q.x, tz))))),
        ZAdd(vz, ZHalf(ZAdd(ZMul(q.w, tz), ZSub(ZMul(q.x, ty), ZMul(q.y, tx))))) >>

(***************************************************************************)
(* Floating-point numbers.  A length (in model units of 1.0, not tenths)   *)
(* or an angle in radians is an integer number of 1/Scale; Math.sin and    *)
(* Math.cos are evaluated by their power series, so that a value is right  *)
(* to a few units of 1/Scale.  Products are taken limb by limb to stay     *)
(* inside 32-bit integers.                                                 *)
(***************************************************************************)
Scale == 10000 * 10000
Limb == 100 * 100

\* the relative accuracy the numeric comparisons allow: 1e-6
Eps == Scale \div (1000 * 1000)

Abs(a) == IF a >= 0 THEN a ELSE -a
Near(a, b) == Abs(a - b) <= Eps

\* a * b for a, b >= 0
MulFix(a, b) ==
  LET ah == a \div Limb
      al == a % Limb
      bh == b \div Limb
      bl == b % Limb
  IN ah * bh + (ah * bl + al * bh + (al * bl) \div Limb) \div Limb

\* Math.PI
Pi == 314159265
HalfPi == Pi \div 2

\* THREE.MathUtils.degToRad of an angle in hundredths of a degree (>= 0):
\* deg * (PI / 180), PI / 18000 = 17453.29252e-8
degToRad(deg) == deg * 17453 + (deg * 29252) \div 100000

\* the series of sine and cosine, for 0 <= x <= PI/4
sinSeries(x) ==
  LET y == MulFix(x, x)
      t5 == Scale - y \div 110
      t4 == Scale - MulFix(y, t5) \div 72
      t3 == Scale - MulFix(y, t4) \div 42
      t2 == Scale - MulFix(y, t3) \div 20
      t1 == Scale - MulFix(y, t2) \div 6
  IN MulFix(x, t1)

cosSeries(x) ==
  LET y == MulFix(x, x)
      t5 == Scale - y \div 90
      t4 == Scale - MulFix(y, t5) \div 56
      t3 == Scale - MulFix(y, t4) \div 30
      t2 == Scale - MulFix(y, t3) \div 12
  IN Scale - MulFix(y, t2) \div 2

\* sine and cosine of the first quadrant, 0 <= x <= PI/2
sinQuadrant(x) ==
  IF 2 * x <= HalfPi THEN sinSeries(x) ELSE cosSeries(HalfPi - x)
cosQuadrant(x) ==
  IF 2 * x <= HalfPi THEN cosSeries(x) ELSE sinSeries(HalfPi - x)

\* Math.sin and Math.cos, for 0 <= x <= 2 PI
sin(x) ==
  CASE x <= HalfPi -> sinQuadrant(x)
    [] x > HalfPi /\ x <= Pi -> sinQuadrant(Pi - x)
    [] x > Pi /\ x <= Pi + HalfPi -> -sinQuadrant(x - Pi)
    [] OTHER -> -sinQuadrant(Max(0, 2 * Pi - x))

cos(x) ==
  CASE x <= HalfPi -> cosQuadrant(x)
    [] x > HalfPi /\ x <= Pi -> -cosQuadrant(Pi - x)
    [] x > Pi /\ x <= Pi + HalfPi -> -cosQuadrant(x - Pi)
    [] OTHER -> cosQuadrant(Max(0, 2 * Pi - x))

\* RADIUS * v: RADIUS is kept in tenths
TimesRadius(v) == RADIUS * (v \div 10) + (RADIUS * (v % 10)) \div 10

(***************************************************************************)
(* The scene graph built by the scene-init effect.  An object is a pair    *)
(* <<name, index>>.                                                        *)
(***************************************************************************)
Obj(n) == <<n, 0>>
Markers == {<<"marker", i>> : i \in 0..3}
Papers == {Obj("paperLeft"), Obj("paperRight")}
Caps == {Obj("capLeft"), Obj("capRight")}
IntersectionDots == {<<"intersectionDot", i>> : i \in 0..9}
IntersectionLines == {<<"intersectionLine", i>> : i \in 0..3}
GuideDots == {Obj("arcPoint1"), Obj("arcPoint2"), Obj("divPoint1"),
              Obj("divPoint2"), Obj("halfPoint"), Obj("quarterPoint")}
EquatorPoints == {<<"intersectionEquatorPoint", i>> : i \in 0..1}
ParallelLines == {<<"parallelLine", i>> : i \in 0..1}
Meridians == {<<"meridian", i>> : i \in 0..1}

\* the children of the globe group, in the order the effect adds them
GlobeObjects ==
  {Obj("sphere"), Obj("innerAxis"), Obj("north"), Obj("south"),
   Obj("facePoint")}
  \cup Meridians
  \cup {Obj("equator"), Obj("arrow.line"), Obj("arrow.cone")}
  \cup Markers \cup Papers \cup Caps \cup IntersectionDots
  \cup IntersectionLines
  \cup {Obj("innerAxisZ"), Obj("poleZPos"), Obj("poleZNeg"), Obj("innerAxisX"),
        Obj("poleXNeg"), Obj("fortyFiveDegreeDot"), Obj("perpendicularLine")}
  \cup GuideDots
  \cup {Obj("yzPaper"), Obj("yzIntersectionLine")}
  \cup EquatorPoints \cup ParallelLines

\* the children of the gizmo scene (axesScene)
GizmoObjects ==
  {Obj("plate"), Obj("ring")}
  \cup {<<"gizmoArrow.shaft", i>> : i \in 0..2}
  \cup {<<"gizmoArrow.head", i>> : i \in 0..2}

SceneObjects == GlobeObjects \cup GizmoObjects

\* the objects each parameter drives
ContactObjects == Markers \cup Papers \cup Caps \cup IntersectionDots
                  \cup IntersectionLines
IntersectionObjects == {Obj("yzPaper"), Obj("yzIntersectionLine")}
                       \cup EquatorPoints \cup ParallelLines
ArcObjects == GuideDots \cup {Obj("perpendicularLine")}

\* A buffer is <<"geometry" or "material", name, serial>>.
Geo(n, i) == <<"geometry", n, i>>
Mat(n, i) == <<"material", n, i>>

\* the geometry each object is created with
InitialGeometry(o) ==
  CASE o \in {Obj("north"), Obj("south")} -> Geo("poleGeo", 0)
    [] o \in {Obj("poleZPos"), Obj("poleZNeg")} -> Geo("poleZGeo", 0)
    [] o = Obj("poleXNeg") -> Geo("poleXGeo", 0)
    [] o \in Markers -> Geo("markerGeo.clone", o[2])
    [] o \in IntersectionDots -> Geo("dotGeo.clone", o[2])
    [] o \in EquatorPoints -> Geo("whiteDotGeo.clone", o[2])
    [] o \in GuideDots \cup {Obj("fortyFiveDegreeDot")} -> Geo("whiteDotGeo", 0)
    [] OTHER -> Geo(o[1], o[2])

\* the material each object is created with (shared where the code shares it)
Material(o) ==
  CASE o \in {Obj("north"), Obj("south")} -> Mat("poleMat", 0)
    [] o \in {Obj("poleZPos"), Obj("poleZNeg")} -> Mat("poleZMat", 0)
    [] o \in Markers -> Mat("markerMat", 0)
    [] o \in Papers -> Mat("paperMat", 0)
    [] o \in Caps -> Mat("capMat", 0)
    [] o \in IntersectionDots -> Mat("redDotMat", 0)
    [] o \in IntersectionLines -> Mat("dashMat", 0)
    [] o \in GuideDots \cup EquatorPoints \cup {Obj("fortyFiveDegreeDot")}
         -> Mat("whiteDotMat", 0)
    [] o \in ParallelLines -> Mat("parallelLineMat", 0)
    [] OTHER -> Mat(o[1], o[2])

\* geometries that are allocated only to be cloned, and never given to a mesh
TemplateGeometries == {Geo("markerGeo", 0), Geo("dotGeo", 0)}

MountGeometries == {InitialGeometry(o) : o \in SceneObjects}
                   \cup TemplateGeometries
MountMaterials == {Material(o) : o \in SceneObjects}

\* how an object is placed or shaped: by which handler, from which value
Created == <<"created", 0>>
Placeholder == <<"placeholder", 0>>
InitialShape(o) ==
  IF o \in ContactObjects \cup EquatorPoints \cup ParallelLines
          \cup {Obj("yzIntersectionLine")}
  THEN Placeholder ELSE Created

(***************************************************************************)
(* Positions and geometry data.  A point is <<x, y, z>> in units of        *)
(* 1/Scale.  A mesh has a position; a disk has the radius of its           *)
(* CircleGeometry, a cap the thetaLength of its SphereGeometry (0 while    *)
(* the geometry is the empty placeholder); a line has the two vertices of  *)
(* its position attribute.                                                 *)
(***************************************************************************)
Origin == <<0, 0, 0>>

\* RADIUS in units of 1/Scale
R == TimesRadius(Scale)

\* the objects whose placement the three parameters drive
LaidOut == ContactObjects \cup ArcObjects \cup IntersectionObjects

\* creation of the perpendicular line and of the guide dots
angleFromNorthPole == degToRad(4500)
baseArcLength == TimesRadius(angleFromNorthPole)

CreatedGuideDotY(o) ==
  CASE o = Obj("arcPoint1") -> -baseArcLength
    [] o = Obj("arcPoint2") -> -(baseArcLength * 2)
    [] o = Obj("divPoint1") -> -baseArcLength - baseArcLength \div 3
    [] o = Obj("divPoint2") -> -baseArcLength - (2 * baseArcLength) \div 3
    [] o = Obj("halfPoint") -> -(baseArcLength \div 2)
    [] o = Obj("quarterPoint") -> -(baseArcLength \div 4)

\* the orientation a cap is created with
CapAxis(o) == IF o = Obj("capLeft") THEN <<-1, 0, 0>> ELSE <<1, 0, 0>>

InitialLayout(o) ==
  CASE o \in GuideDots -> [position |-> <<R, CreatedGuideDotY(o), 0>>]
    [] o = Obj("perpendicularLine") ->
         [positions |-> << <<R, 0, 0>>, <<R, -(baseArcLength * 2), 0>> >>]
    [] o \in Markers \cup IntersectionDots -> [position |-> Origin]
    [] o \in Papers -> [position |-> Origin, radius |-> 0]
    [] o \in Caps -> [quaternion |-> setFromAxisAngle(CapAxis(o), 90),
                      thetaLength |-> 0]
    [] o \in IntersectionLines \cup ParallelLines ->
         [positions |-> <<Origin, Origin>>]
    [] o \in EquatorPoints \cup {Obj("yzPaper")} -> [position |-> Origin]
    \* new THREE.BufferGeometry(): no vertices
    [] o = Obj("yzIntersectionLine") -> [positions |-> <<>>]

\* the arc-length effect: the y of each guide dot at a scaled arc length
\* the base length divided by 100 before it is multiplied by the scale
scaledArcLengthByPercent(arcLengthScale) ==
  (baseArcLength \div 100) * arcLengthScale

scaledArcLength(arcLengthScale) ==
  MulFix(baseArcLength, arcLengthScale * (Scale \div 100))

\* the two dividing dots put at one and two thirds of the scaled arc length
GuideDotYAtThirds(o, len) ==
  CASE o = Obj("arcPoint1") -> -len
    [] o = Obj("arcPoint2") -> -(len * 2)
    [] o = Obj("divPoint1") -> -(len \div 3)
    [] o = Obj("divPoint2") -> -((2 * len) \div 3)
    [] o = Obj("halfPoint") -> -(len \div 2)
    [] o = Obj("quarterPoint") -> -(len \div 4)

\* the half dot kept at half the unscaled base length
GuideDotYHalfOfBase(o, len) ==
  CASE o = Obj("arcPoint1") -> -len
    [] o = Obj("arcPoint2") -> -(len * 2)
    [] o = Obj("divPoint1") -> -len - len \div 3
    [] o = Obj("divPoint2") -> -len - (2 * len) \div 3
    [] o = Obj("halfPoint") -> -(baseArcLength \div 2)
    [] o = Obj("quarterPoint") -> -(len \div 4)

GuideDotY(o, len) ==
  CASE o = Obj("arcPoint1") -> -len
    [] o = Obj("arcPoint2") -> -(len * 2)
    [] o = Obj("divPoint1") -> -len - len \div 3
    [] o = Obj("divPoint2") -> -len - (2 * len) \div 3
    [] o = Obj("halfPoint") -> -(len \div 2)
    [] o = Obj("quarterPoint") -> -(len \div 4)

\* the contact-angle effect: its derived values, for c in hundredths of a
\* degree
angleRad(c) == degToRad(9000 - c)
\* the plane offset taken from the contact angle itself
planeZOfContactAngle(c) == TimesRadius(sin(degToRad(c)))

planeZ(c) == TimesRadius(sin(angleRad(c)))
\* the disk radius taken from the contact angle itself
intersectionRadiusOfContactAngle(c) == TimesRadius(cos(degToRad(c)))

intersectionRadius(c) == TimesRadius(cos(angleRad(c)))
\* the cap angle without the complement
capAngleOfComplement(c) == angleRad(c)

capAngle(c) == HalfPi - angleRad(c)
newMarkerAngles(c) == <<9000 - c, 9000 + c, 27000 - c, 27000 + c>>

MarkerPosition(i, c) ==
  LET t == degToRad(newMarkerAngles(c)[i + 1])
  IN <<TimesRadius(cos(t)), 0, TimesRadius(sin(t))>>

\* [planeZ, -planeZ].forEach: the five points of the plane at z, in the
\* order the dots take them
PlanePoints(r, z) ==
  [meridianTop |-> <<0, r, z>>, meridianBottom |-> <<0, -r, z>>,
   equatorRight |-> <<r, 0, z>>, equatorLeft |-> <<-r, 0, z>>,
   center |-> <<0, 0, z>>]

DotOrder ==
  <<"meridianTop", "meridianBottom", "equatorRight", "equatorLeft", "center">>

\* both passes made over the plane at +planeZ
PlaneOfFirst(i, perPlane, c) == planeZ(c)

\* dot number i (0..9) and line number i (0..3) of the pass over the two planes
PlaneOf(i, perPlane, c) == IF i < perPlane THEN planeZ(c) ELSE -planeZ(c)

IntersectionDotPosition(i, c) ==
  PlanePoints(intersectionRadius(c), PlaneOf(i, 5, c))[DotOrder[(i % 5) + 1]]

IntersectionLinePositions(i, c) ==
  LET p == PlanePoints(intersectionRadius(c), PlaneOf(i, 2, c))
  IN IF i % 2 = 0 THEN <<p.meridianTop, p.meridianBottom>>
     ELSE <<p.equatorRight, p.equatorLeft>>

\* the intersection-angle effect: its derived values, for a in hundredths of
\* a degree
lineRadius == (R \div 10000) * SURFACE_OFFSET
intersectionAngleRad(a) == degToRad(a)
planeX(a) == MulFix(lineRadius, sin(intersectionAngleRad(a)))
arcIntersectionRadius(a) == MulFix(lineRadius, cos(intersectionAngleRad(a)))
yzPaperX(a) == TimesRadius(sin(intersectionAngleRad(a)))

\* |t| for t = (i / (SEGMENTS / 2) - 0.5) * PI, which is |4i - SEGMENTS|
\* steps of 90 / SEGMENTS degrees
arcParameter(i) == degToRad((Abs(4 * i - SEGMENTS) * 9000) \div SEGMENTS)

\* the arc drawn over the whole circle: i up to SEGMENTS, t from 0 to 2 PI
ArcPointsOfCircle(a) ==
  [k \in 1..(SEGMENTS + 1) |->
     LET t == degToRad(((k - 1) * 36000) \div SEGMENTS)
         y == MulFix(arcIntersectionRadius(a), Abs(cos(t)))
         z == MulFix(arcIntersectionRadius(a), Abs(sin(t)))
     IN <<planeX(a), IF cos(t) < 0 THEN -y ELSE y,
          IF sin(t) < 0 THEN -z ELSE z>>]

\* pts: the points for i = 0 .. SEGMENTS / 2 (cos is even, sin is odd)
ArcPoints(a) ==
  [k \in 1..(SEGMENTS \div 2 + 1) |->
     LET i == k - 1
         y == MulFix(arcIntersectionRadius(a), cos(arcParameter(i)))
         z == MulFix(arcIntersectionRadius(a), sin(arcParameter(i)))
     IN <<planeX(a), y, IF 4 * i < SEGMENTS THEN -z ELSE z>>]

\* intersectionPointsZ = [pointZ, -pointZ], pointZ = intersectionRadius
pointZ(index, a) ==
  IF index = 0 THEN arcIntersectionRadius(a) ELSE -arcIntersectionRadius(a)

EquatorPointPosition(index, a) == <<planeX(a), 0, pointZ(index, a)>>

ParallelLinePositions(index, a) ==
  << <<planeX(a), 0, pointZ(index, a)>>, <<planeX(a), -R, pointZ(index, a)>> >>

\* the refs the scene-init effect fills
AllRefs ==
  {"sceneRef", "globeRef", "cameraRef", "sphereMatRef", "meridianMatsRef",
   "eqMatRef", "whiteDotMatRef", "perpendicularMatRef", "parallelLineMatRef",
   "perpendicularLineRef", "arcPoint1Ref", "arcPoint2Ref", "divPoint1Ref",
   "divPoint2Ref", "halfPointRef", "quarterPointRef", "markersRef",
   "paperLeftRef", "paperRightRef", "capLeftRef", "capRightRef",
   "intersectionDotsRef", "intersectionLinesRef", "yzPaperRef",
   "yzIntersectionLineRef", "intersectionEquatorPointsRef", "parallelLinesRef",
   "controlsRef", "axesRendererRef", "axesFrameMatRef", "axesPlateMatRef"}

(***************************************************************************)
(* State                                                                   *)
(***************************************************************************)
VARIABLES
  ui,             \* the component's React state (useState values)
  gizmoModeRef,   \* gizmoModeRef.current
  phase,          \* "init" (rendered, effects not yet run), "mounted", "unmounted"
  container,      \* whether mountRef.current is a DOM node when the effects run
  refs,           \* the refs that hold an object (or a non-empty array)
  children,       \* the objects of the two scene graphs
  geometry,       \* object -> the geometry buffer it holds
  shape,          \* object -> <<handler, value>> that last placed or shaped it
  layout,         \* object -> its position, geometry parameters or vertices
  allocated,      \* every geometry and material buffer allocated so far
  disposed,       \* the buffers dispose() was called on
  allocs,         \* number of geometries allocated by the parameter handlers
  color,          \* themed material (or "background") -> colour
  depthTest,      \* depthTest/depthWrite of the equator and meridian materials
  quaternion,     \* globe.quaternion
  cameraPosition, \* camera.position, in tenths
  quaternionBefore, \* globe.quaternion when the last orientation command began
  turn,           \* a fine turn about one local axis, applied after quaternion
  cameraBefore,   \* camera.position when the last orientation command began
  animationLoop,  \* the frame callbacks the renderer has registered
  frameView,      \* what the last render of the frame loop drew
  themeView,      \* what the last render of applyTheme drew
  now,            \* performance.now(), in ms
  hud,            \* lastHUD, anglesRef.current and the angles state
  pend,           \* what the running task still has to do (<<>>: idle)
  rfrK,           \* the loop counter k of randomFrontRotation (0 outside it)
  lastCommand,    \* the last command or lifecycle step that ran
  error,          \* an exception escaped a handler
  nEvents         \* number of user events so far

vars == <<ui, gizmoModeRef, phase, container, refs, children, geometry, shape,
          layout, allocated, disposed, allocs, color, depthTest, quaternion,
          cameraPosition, quaternionBefore, turn, cameraBefore, animationLoop,
          frameView, themeView, now, hud, pend, rfrK, lastCommand, error,
          nEvents>>

sceneVars == <<children, geometry, shape, layout, allocated, disposed, allocs>>
paintVars == <<color, depthTest>>
poseVars == <<quaternion, cameraPosition, quaternionBefore, turn, cameraBefore>>
hudVars == <<now, hud>>
lifeVars == <<phase, container, refs, animationLoop>>

\* useState defaults
DefaultUi ==
  [stepDeg |-> DefaultStepDeg,
   dark |-> FALSE,
   gizmoMode |-> "object",
   showBackEquator |-> TRUE,
   showBackMeridians |-> FALSE,
   arcLengthScale |-> DefaultArcLengthScale,
   arcStepPercent |-> DefaultArcStepPercent,
   contactAngleDeg |-> DefaultContactAngleDeg,
   contactAngleStep |-> DefaultContactAngleStep,
   intersectionAngleDeg |-> DefaultIntersectionAngleDeg,
   intersectionAngleStep |-> DefaultIntersectionAngleStep]

cameraInit == <<0, 0, CameraZ>>

NoView == [tags |-> {}, dead |-> {}]

\* no fine turn
NoTurn == [axis |-> "x", deg |-> 0]

\* a renderer that keeps every callback it is given
addAnimationLoop(loops, callback) ==
  IF callback = "null" THEN {} ELSE loops \cup {callback}

\* renderer.setAnimationLoop(callback): the renderer runs one callback
setAnimationLoop(loops, callback) ==
  IF callback = "null" THEN {} ELSE {callback}

\* colours at creation of the themed materials
CreatedColors ==
  [t \in {"background", "sphereMat", "meridianMats", "axesFrameMat",
          "axesPlateMat", "axesPlateMat.opacity", "whiteDotMat",
          "perpendicularMat", "parallelLineMat", "yzIntersectionLineMat",
          "yzPaperMat"} |->
     CASE t = "background" -> "none"
       [] t = "sphereMat" -> "sphereLight"
       [] t = "meridianMats" -> "gridLight"
       [] t = "axesFrameMat" -> "gizmoFrameLight"
       [] t = "axesPlateMat" -> "gizmoPlateLight"
       [] t = "axesPlateMat.opacity" -> "0.26"
       [] OTHER -> "0xffffff"]

\* what applyTheme(isDark) assigns
applyTheme(c, isDark) ==
  [c EXCEPT !["background"] = IF isDark THEN "bgDark" ELSE "bgLight",
            !["sphereMat"] = IF isDark THEN "sphereDark" ELSE "sphereLight",
            !["meridianMats"] = IF isDark THEN "gridDark" ELSE "gridLight",
            !["axesFrameMat"] =
               IF isDark THEN "gizmoFrameDark" ELSE "gizmoFrameLight",
            !["axesPlateMat"] =
               IF isDark THEN "gizmoPlateDark" ELSE "gizmoPlateLight",
            !["axesPlateMat.opacity"] = IF isDark THEN "0.35" ELSE "0.25"]

InitWith(c) ==
  /\ ui = DefaultUi
  /\ gizmoModeRef = "object"
  /\ phase = "init"
  /\ container = c
  /\ refs = {}
  /\ children = {}
  /\ geometry = <<>>
  /\ shape = <<>>
  /\ layout = <<>>
  /\ allocated = {}
  /\ disposed = {}
  /\ allocs = 0
  /\ color = CreatedColors
  /\ depthTest = [equator |-> FALSE, meridians |-> FALSE]
  /\ quaternion = defaultQuat
  /\ cameraPosition = cameraInit
  /\ quaternionBefore = defaultQuat
  /\ turn = NoTurn
  /\ cameraBefore = cameraInit
  /\ animationLoop = {}
  /\ frameView = NoView
  /\ themeView = NoView
  /\ now = 0
  /\ hud = [lastHUD |-> 0, anglesRef |-> <<0, 0, 0>>, angles |-> <<0, 0, 0>>]
  /\ pend = <<>>
  /\ rfrK = 0
  /\ lastCommand = "construct"
  /\ error = FALSE
  /\ nEvents = 0

Init == \E c \in BOOLEAN : InitWith(c)

(***************************************************************************)
(* React: after a state change the effects whose dependency changed run    *)
(* in declaration order, to completion, before anything else.              *)
(***************************************************************************)
Effect(n) == <<"effect", n>>
EffectOrder ==
  <<"gizmoMode", "theme", "theme2", "backEquator", "backMeridians",
    "arcLength", "contactAngle", "intersectionAngle">>
Effects(S) ==
  LET RECURSIVE Pick(_)
      Pick(i) == IF i > Len(EffectOrder) THEN <<>>
                 ELSE (IF EffectOrder[i] \in S
                       THEN <<Effect(EffectOrder[i])>> ELSE <<>>) \o Pick(i + 1)
  IN Pick(1)

\* the effects whose dependencies differ between two React states
Changed(old, new) ==
  {n \in {"gizmoMode", "theme", "theme2", "backEquator", "backMeridians",
          "arcLength", "contactAngle", "intersectionAngle"} :
     CASE n = "gizmoMode" -> old.gizmoMode # new.gizmoMode
       [] n \in {"theme", "theme2"} -> old.dark # new.dark
       [] n = "backEquator" -> old.showBackEquator # new.showBackEquator
       [] n = "backMeridians" -> old.showBackMeridians # new.showBackMeridians
       [] n = "arcLength" -> old.arcLengthScale # new.arcLengthScale
       [] n = "contactAngle" -> old.contactAngleDeg # new.contactAngleDeg
       [] n = "intersectionAngle" ->
            old.intersectionAngleDeg # new.intersectionAngleDeg}

\* setState from an event handler: commit the new state, queue the effects
SetState(new) ==
  /\ ui' = new
  /\ pend' = Effects(Changed(ui, new))

Idle == phase = "mounted" /\ pend = <<>>
Running(op) == pend # <<>> /\ Head(pend) = op
Built == "sceneRef" \in refs

(***************************************************************************)
(* Mount: the first run of the effects.  The theme query and the           *)
(* scene-init effect run here; the effects declared after them follow as   *)
(* the rest of the same task.  osDark is what matchMedia answers: setDark  *)
(* takes effect in the re-render that follows the first run.               *)
(***************************************************************************)
MountEffects ==
  Effects({"theme", "theme2", "backEquator", "backMeridians", "arcLength",
           "contactAngle", "intersectionAngle"})

sceneInit(osDark) ==
  /\ phase = "init"
  /\ phase' = "mounted"
  /\ lastCommand' = "sceneInit"
  /\ pend' = MountEffects \o (IF osDark THEN <<Effect("setDark")>> ELSE <<>>)
  /\ IF ~container
     THEN \* if (!container) return;
          UNCHANGED <<refs, sceneVars, paintVars, poseVars, animationLoop,
                      themeView>>
     ELSE /\ refs' = AllRefs
          /\ children' = SceneObjects
          /\ geometry' = [o \in SceneObjects |-> InitialGeometry(o)]
          /\ shape' = [o \in SceneObjects |-> InitialShape(o)]
          /\ layout' = [o \in LaidOut |-> InitialLayout(o)]
          /\ allocated' = MountGeometries \cup MountMaterials
          /\ UNCHANGED <<disposed, allocs, depthTest>>
          /\ quaternion' = defaultQuat
          /\ cameraPosition' = cameraInit
          /\ turn' = NoTurn
          /\ UNCHANGED <<quaternionBefore, cameraBefore>>
          \* applyAndStart(false); applyAndStart(... && dark), dark still false
          /\ color' = applyTheme(applyTheme(color, FALSE), ui.dark)
          \* each applyTheme ends with renderer.render(scene, camera)
          /\ themeView' = [tags |-> {InitialShape(o) : o \in GlobeObjects},
                           dead |-> {}]
          /\ animationLoop' =
               setAnimationLoop(setAnimationLoop(animationLoop, "first"),
                                "second")
  /\ UNCHANGED <<ui, gizmoModeRef, container, frameView, hudVars, rfrK, error,
                 nEvents>>

\* the re-render after the theme query answered "dark"
setDarkFromOS ==
  /\ Running(Effect("setDark"))
  /\ ui' = [ui EXCEPT !.dark = TRUE]
  /\ pend' = Effects(Changed(ui, ui')) \o Tail(pend)
  /\ UNCHANGED <<gizmoModeRef, lifeVars, sceneVars, paintVars, poseVars,
                 frameView, themeView, hudVars, rfrK, lastCommand, error, nEvents>>

(***************************************************************************)
(* The effects                                                             *)
(***************************************************************************)
gizmoModeEffect ==
  /\ Running(Effect("gizmoMode"))
  /\ gizmoModeRef' = ui.gizmoMode
  /\ pend' = Tail(pend)
  /\ UNCHANGED <<ui, lifeVars, sceneVars, paintVars, poseVars, frameView, themeView, hudVars,
                 rfrK, lastCommand, error, nEvents>>

themeColor(isDark) == IF isDark THEN "0xffffff" ELSE "gridLight"

themeEffect ==
  /\ Running(Effect("theme"))
  /\ pend' = Tail(pend)
  /\ IF ~("sphereMatRef" \in refs /\ "sceneRef" \in refs)
     THEN UNCHANGED color
     ELSE color' = [applyTheme(color, ui.dark) EXCEPT
                      !["whiteDotMat"] = themeColor(ui.dark),
                      !["perpendicularMat"] = themeColor(ui.dark),
                      !["parallelLineMat"] = themeColor(ui.dark)]
  /\ UNCHANGED <<ui, gizmoModeRef, lifeVars, sceneVars, depthTest, poseVars,
                 frameView, themeView, hudVars, rfrK, lastCommand, error, nEvents>>

\* a theme change that also rebuilds the plane it recolours
themeEffectRebuild ==
  /\ Running(Effect("theme2"))
  /\ pend' = Tail(pend)
  /\ color' = [color EXCEPT
                 !["yzIntersectionLineMat"] =
                    IF "yzIntersectionLineRef" \in refs
                    THEN themeColor(ui.dark) ELSE @,
                 !["yzPaperMat"] =
                    IF "yzPaperRef" \in refs
                    THEN (IF ui.dark THEN "0xffffff" ELSE "0x404040") ELSE @]
  /\ IF "yzPaperRef" \in refs
     THEN /\ allocs' = allocs + 1
          /\ allocated' = allocated \cup {Geo("PlaneGeometry", allocs + 1)}
          /\ disposed' = disposed \cup {geometry[Obj("yzPaper")]}
          /\ geometry' = [geometry EXCEPT ![Obj("yzPaper")] =
                            Geo("PlaneGeometry", allocs + 1)]
          /\ UNCHANGED <<children, shape, layout>>
     ELSE UNCHANGED sceneVars
  /\ UNCHANGED <<ui, gizmoModeRef, lifeVars, depthTest, poseVars,
                 frameView, themeView, hudVars, rfrK, lastCommand, error, nEvents>>

themeEffect2 ==
  /\ Running(Effect("theme2"))
  /\ pend' = Tail(pend)
  /\ color' = [color EXCEPT
                 !["yzIntersectionLineMat"] =
                    IF "yzIntersectionLineRef" \in refs
                    THEN themeColor(ui.dark) ELSE @,
                 !["yzPaperMat"] =
                    IF "yzPaperRef" \in refs
                    THEN (IF ui.dark THEN "0xffffff" ELSE "0x404040") ELSE @]
  /\ UNCHANGED <<ui, gizmoModeRef, lifeVars, sceneVars, depthTest, poseVars,
                 frameView, themeView, hudVars, rfrK, lastCommand, error, nEvents>>

backEquatorEffect ==
  /\ Running(Effect("backEquator"))
  /\ pend' = Tail(pend)
  /\ depthTest' = IF "eqMatRef" \in refs
                  THEN [depthTest EXCEPT !.equator = ~ui.showBackEquator]
                  ELSE depthTest
  /\ UNCHANGED <<ui, gizmoModeRef, lifeVars, sceneVars, color, poseVars,
                 frameView, themeView, hudVars, rfrK, lastCommand, error, nEvents>>

backMeridiansEffect ==
  /\ Running(Effect("backMeridians"))
  /\ pend' = Tail(pend)
  /\ depthTest' = IF "meridianMatsRef" \in refs
                  THEN [depthTest EXCEPT !.meridians = ~ui.showBackMeridians]
                  ELSE depthTest
  /\ UNCHANGED <<ui, gizmoModeRef, lifeVars, sceneVars, color, poseVars,
                 frameView, themeView, hudVars, rfrK, lastCommand, error, nEvents>>

\* an uncaught TypeError: the task ends where it stands
Throw ==
  /\ error' = TRUE
  /\ pend' = <<>>
  /\ UNCHANGED sceneVars

\* the guide dots moved, the perpendicular line left as it is
arcLengthEffectDotsOnly ==
  /\ Running(Effect("arcLength"))
  /\ IF {"perpendicularLineRef", "arcPoint1Ref", "arcPoint2Ref",
         "divPoint1Ref", "divPoint2Ref", "halfPointRef", "quarterPointRef"}
          \subseteq refs
     THEN /\ shape' = [o \in DOMAIN shape |->
                         IF o \in ArcObjects
                         THEN <<"arcLength", ui.arcLengthScale>>
                         ELSE shape[o]]
          /\ layout' = [o \in DOMAIN layout |->
                          CASE o \in GuideDots ->
                                 [layout[o] EXCEPT !.position[2] =
                                    GuideDotY(o, scaledArcLength(ui.arcLengthScale))]
                            [] OTHER -> layout[o]]
     ELSE UNCHANGED <<shape, layout>>
  /\ pend' = Tail(pend)
  /\ UNCHANGED <<ui, gizmoModeRef, lifeVars, children, geometry, allocated,
                 disposed, allocs, paintVars, poseVars, frameView, themeView, hudVars, rfrK,
                 lastCommand, error, nEvents>>

\* the guide dots moved, and both ends of the perpendicular line
arcLengthEffectBothEnds ==
  /\ Running(Effect("arcLength"))
  /\ IF {"perpendicularLineRef", "arcPoint1Ref", "arcPoint2Ref",
         "divPoint1Ref", "divPoint2Ref", "halfPointRef", "quarterPointRef"}
          \subseteq refs
     THEN /\ shape' = [o \in DOMAIN shape |->
                         IF o \in ArcObjects
                         THEN <<"arcLength", ui.arcLengthScale>>
                         ELSE shape[o]]
          /\ layout' = [o \in DOMAIN layout |->
                          CASE o \in GuideDots ->
                                 [layout[o] EXCEPT !.position[2] =
                                    GuideDotY(o, scaledArcLength(ui.arcLengthScale))]
                            [] o = Obj("perpendicularLine") ->
                                 [layout[o] EXCEPT
                                    !.positions[1][2] =
                                      -scaledArcLength(ui.arcLengthScale),
                                    !.positions[2][2] =
                                      -(scaledArcLength(ui.arcLengthScale) * 2)]
                            [] OTHER -> layout[o]]
     ELSE UNCHANGED <<shape, layout>>
  /\ pend' = Tail(pend)
  /\ UNCHANGED <<ui, gizmoModeRef, lifeVars, children, geometry, allocated,
                 disposed, allocs, paintVars, poseVars, frameView, themeView, hudVars, rfrK,
                 lastCommand, error, nEvents>>

\* the guide dots and the far end of the perpendicular line, moved in place
arcLengthEffect ==
  /\ Running(Effect("arcLength"))
  /\ IF {"perpendicularLineRef", "arcPoint1Ref", "arcPoint2Ref",
         "divPoint1Ref", "divPoint2Ref", "halfPointRef", "quarterPointRef"}
          \subseteq refs
     THEN /\ shape' = [o \in DOMAIN shape |->
                         IF o \in ArcObjects
                         THEN <<"arcLength", ui.arcLengthScale>>
                         ELSE shape[o]]
          /\ layout' = [o \in DOMAIN layout |->
                          CASE o \in GuideDots ->
                                 [layout[o] EXCEPT !.position[2] =
                                    GuideDotY(o, scaledArcLength(ui.arcLengthScale))]
                            [] o = Obj("perpendicularLine") ->
                                 [layout[o] EXCEPT !.positions[2][2] =
                                    -(scaledArcLength(ui.arcLengthScale) * 2)]
                            [] OTHER -> layout[o]]
     ELSE UNCHANGED <<shape, layout>>
  /\ pend' = Tail(pend)
  /\ UNCHANGED <<ui, gizmoModeRef, lifeVars, children, geometry, allocated,
                 disposed, allocs, paintVars, poseVars, frameView, themeView, hudVars, rfrK,
                 lastCommand, error, nEvents>>

Dispose(n) == <<"dispose", n>>
Install(n) == <<"install", n>>
Update(n) == <<"update", n>>

\* an effect that runs its body whatever the refs hold
noGuard == TRUE

\* the guard of the contact-angle effect
contactGuard ==
  {"markersRef", "paperLeftRef", "paperRightRef", "capLeftRef", "capRightRef",
   "intersectionDotsRef", "intersectionLinesRef"} \subseteq refs

ContactBody ==
  <<Dispose("paperLeft"), Install("paperLeft"),
    Dispose("paperRight"), Install("paperRight"),
    Dispose("capLeft"), Install("capLeft"),
    Dispose("capRight"), Install("capRight"),
    Update("intersectionDots")>>

\* guard, derived values, and the four equator markers
contactAngleEffect ==
  /\ Running(Effect("contactAngle"))
  /\ IF contactGuard
     THEN /\ shape' = [o \in DOMAIN shape |->
                         IF o \in Markers
                         THEN <<"contactAngle", ui.contactAngleDeg>>
                         ELSE shape[o]]
          /\ layout' = [o \in DOMAIN layout |->
                          IF o \in Markers
                          THEN [layout[o] EXCEPT !.position =
                                  MarkerPosition(o[2], ui.contactAngleDeg)]
                          ELSE layout[o]]
          /\ pend' = ContactBody \o Tail(pend)
     ELSE /\ UNCHANGED <<shape, layout>>
          /\ pend' = Tail(pend)
  /\ UNCHANGED <<ui, gizmoModeRef, lifeVars, children, geometry, allocated,
                 disposed, allocs, paintVars, poseVars, frameView, themeView, hudVars, rfrK,
                 lastCommand, error, nEvents>>

\* the guard of the intersection-angle effect
intersectionGuard ==
  {"yzPaperRef", "yzIntersectionLineRef", "intersectionEquatorPointsRef",
   "parallelLinesRef"} \subseteq refs

IntersectionBody ==
  <<Dispose("yzIntersectionLine"), Install("yzIntersectionLine"),
    Update("intersectionEquatorPoints")>>

\* guard, derived values, and the position of the hidden YZ plane
intersectionAngleEffect ==
  /\ Running(Effect("intersectionAngle"))
  /\ IF intersectionGuard
     THEN /\ shape' = [shape EXCEPT ![Obj("yzPaper")] =
                         <<"intersectionAngle", ui.intersectionAngleDeg>>]
          /\ layout' = [layout EXCEPT ![Obj("yzPaper")].position[1] =
                           yzPaperX(ui.intersectionAngleDeg)]
          /\ pend' = IntersectionBody \o Tail(pend)
     ELSE /\ UNCHANGED <<shape, layout>>
          /\ pend' = Tail(pend)
  /\ UNCHANGED <<ui, gizmoModeRef, lifeVars, children, geometry,
                 allocated, disposed, allocs, paintVars, poseVars, frameView, themeView, hudVars, rfrK,
                 lastCommand, error, nEvents>>

\* what the handler that replaces the geometry of object n builds it from
ShapeOf(n) ==
  IF n = "yzIntersectionLine"
  THEN <<"intersectionAngle", ui.intersectionAngleDeg>>
  ELSE <<"contactAngle", ui.contactAngleDeg>>

GeometryClass(n) ==
  CASE n \in {"paperLeft", "paperRight"} -> "CircleGeometry"
    [] n \in {"capLeft", "capRight"} -> "SphereGeometry"
    [] OTHER -> "BufferGeometry"

\* the replacement that forgets to release the buffer it replaces
keepGeometry(n) ==
  /\ Running(Dispose(n))
  /\ pend' = Tail(pend)
  /\ UNCHANGED <<sceneVars, error>>
  /\ UNCHANGED <<ui, gizmoModeRef, lifeVars, paintVars, poseVars, frameView, themeView, hudVars,
                 rfrK, lastCommand, nEvents>>

\* if (<object>Ref.current) <object>.geometry.dispose()
disposeGeometry(n) ==
  /\ Running(Dispose(n))
  /\ pend' = Tail(pend)
  /\ IF Obj(n) \in children
     THEN /\ disposed' = disposed \cup {geometry[Obj(n)]}
          /\ UNCHANGED <<children, geometry, shape, layout, allocated, allocs,
                       error>>
     ELSE UNCHANGED <<sceneVars, error>>
  /\ UNCHANGED <<ui, gizmoModeRef, lifeVars, paintVars, poseVars, frameView, themeView, hudVars,
                 rfrK, lastCommand, nEvents>>

\* both disks put on the same side of the globe
InstalledLayoutSameSide(n, was, c) ==
  CASE n \in {"paperLeft", "paperRight"} ->
         [was EXCEPT !.radius = intersectionRadius(c), !.position[3] = planeZ(c)]
    [] n \in {"capLeft", "capRight"} -> [was EXCEPT !.thetaLength = capAngle(c)]
    [] n = "yzIntersectionLine" -> [was EXCEPT !.positions = ArcPoints(c)]

\* what the new geometry of object n, and the position set with it, are; c is
\* the value of the parameter that drives n
InstalledLayout(n, was, c) ==
  CASE n = "paperLeft" ->
         [was EXCEPT !.radius = intersectionRadius(c), !.position[3] = -planeZ(c)]
    [] n = "paperRight" ->
         [was EXCEPT !.radius = intersectionRadius(c), !.position[3] = planeZ(c)]
    [] n \in {"capLeft", "capRight"} -> [was EXCEPT !.thetaLength = capAngle(c)]
    [] n = "yzIntersectionLine" -> [was EXCEPT !.positions = ArcPoints(c)]

\* if (<object>Ref.current) <object>.geometry = new ...Geometry(...), and the
\* position that goes with it
installGeometry(n) ==
  /\ Running(Install(n))
  /\ pend' = Tail(pend)
  /\ IF Obj(n) \in children
     THEN /\ allocs' = allocs + 1
          /\ allocated' = allocated \cup {Geo(GeometryClass(n), allocs + 1)}
          /\ geometry' = [geometry EXCEPT ![Obj(n)] =
                            Geo(GeometryClass(n), allocs + 1)]
          /\ shape' = [shape EXCEPT ![Obj(n)] = ShapeOf(n)]
          /\ layout' = IF Obj(n) \in DOMAIN layout
                        THEN [layout EXCEPT ![Obj(n)] =
                                InstalledLayout(n, @, ShapeOf(n)[2])]
                        ELSE layout
          /\ UNCHANGED <<children, disposed, error>>
     ELSE UNCHANGED <<sceneVars, error>>
  /\ UNCHANGED <<ui, gizmoModeRef, lifeVars, paintVars, poseVars, frameView, themeView, hudVars,
                 rfrK, lastCommand, nEvents>>

\* the chords given new geometry objects instead of new coordinates
recreateIntersectionLines ==
  /\ Running(Update("intersectionDots"))
  /\ geometry' = [o \in DOMAIN geometry |->
                    IF o \in IntersectionLines
                    THEN Geo("BufferGeometry", allocs + 1 + o[2])
                    ELSE geometry[o]]
  /\ allocs' = allocs + 4
  /\ allocated' = allocated \cup {Geo("BufferGeometry", allocs + i) : i \in 1..4}
  /\ pend' = Tail(pend)
  /\ UNCHANGED <<children, shape, layout, disposed, error>>
  /\ UNCHANGED <<ui, gizmoModeRef, lifeVars, paintVars, poseVars, frameView, themeView, hudVars,
                 rfrK, lastCommand, nEvents>>

\* the ten intersection dots and the four dashed chords, moved in place
updateIntersectionDots ==
  /\ Running(Update("intersectionDots"))
  /\ IF IntersectionDots \cup IntersectionLines \subseteq children
     THEN /\ shape' = [o \in DOMAIN shape |->
                         IF o \in IntersectionDots \cup IntersectionLines
                         THEN <<"contactAngle", ui.contactAngleDeg>>
                         ELSE shape[o]]
          /\ layout' = [o \in DOMAIN layout |->
                          CASE o \in IntersectionDots ->
                                 [layout[o] EXCEPT !.position =
                                    IntersectionDotPosition(o[2],
                                                            ui.contactAngleDeg)]
                            [] o \in IntersectionLines ->
                                 [layout[o] EXCEPT !.positions =
                                    IntersectionLinePositions(o[2],
                                                              ui.contactAngleDeg)]
                            [] OTHER -> layout[o]]
          /\ pend' = Tail(pend)
          /\ UNCHANGED <<children, geometry, allocated, disposed, allocs, error>>
     ELSE Throw
  /\ UNCHANGED <<ui, gizmoModeRef, lifeVars, paintVars, poseVars, frameView, themeView, hudVars,
                 rfrK, lastCommand, nEvents>>

\* the two equator-contact dots and the two guide lines, moved in place
updateEquatorPoints ==
  /\ Running(Update("intersectionEquatorPoints"))
  /\ IF EquatorPoints \cup ParallelLines \subseteq children
     THEN /\ shape' = [o \in DOMAIN shape |->
                         IF o \in EquatorPoints \cup ParallelLines
                         THEN <<"intersectionAngle", ui.intersectionAngleDeg>>
                         ELSE shape[o]]
          /\ layout' = [o \in DOMAIN layout |->
                          CASE o \in EquatorPoints ->
                                 [layout[o] EXCEPT !.position =
                                    EquatorPointPosition(o[2],
                                                         ui.intersectionAngleDeg)]
                            [] o \in ParallelLines ->
                                 [layout[o] EXCEPT !.positions =
                                    ParallelLinePositions(o[2],
                                                          ui.intersectionAngleDeg)]
                            [] OTHER -> layout[o]]
          /\ pend' = Tail(pend)
          /\ UNCHANGED <<children, geometry, allocated, disposed, allocs, error>>
     ELSE Throw
  /\ UNCHANGED <<ui, gizmoModeRef, lifeVars, paintVars, poseVars, frameView, themeView, hudVars,
                 rfrK, lastCommand, nEvents>>

(***************************************************************************)
(* Event handlers.  A handler runs when no other task is running; the      *)
(* state setters it calls are batched and the effects whose dependency     *)
(* changed run afterwards, in declaration order.                           *)
(***************************************************************************)
Handler(name) ==
  /\ Idle
  /\ lastCommand' = name

Signs == {1, -1}

\* only React state changes
StateOnly ==
  UNCHANGED <<gizmoModeRef, lifeVars, sceneVars, paintVars, poseVars,
              frameView, themeView, hudVars, rfrK, error>>

\* the handler without its clamp
noClamp(lo, hi, next) == next

clamp(lo, hi, next) == Max(lo, Min(hi, next))

changeArcLength(sign) ==
  /\ Handler("changeArcLength")
  /\ SetState([ui EXCEPT !.arcLengthScale =
                 clamp(0, ArcMax, @ + ui.arcStepPercent * sign)])
  /\ StateOnly

changeContactAngle(sign) ==
  /\ Handler("changeContactAngle")
  /\ SetState([ui EXCEPT !.contactAngleDeg =
                 clamp(ContactMin, ContactMax, @ + ui.contactAngleStep * sign)])
  /\ StateOnly

changeIntersectionAngle(sign) ==
  /\ Handler("changeIntersectionAngle")
  /\ SetState([ui EXCEPT !.intersectionAngleDeg =
                 clamp(0, IntersectionMax, @ + ui.intersectionAngleStep * sign)])
  /\ StateOnly

\* the three reset chips
setArcLengthScale ==
  /\ Handler("setArcLengthScale")
  /\ SetState([ui EXCEPT !.arcLengthScale = DefaultArcLengthScale])
  /\ StateOnly

setContactAngleDeg ==
  /\ Handler("setContactAngleDeg")
  /\ SetState([ui EXCEPT !.contactAngleDeg = DefaultContactAngleDeg])
  /\ StateOnly

setIntersectionAngleDeg ==
  /\ Handler("setIntersectionAngleDeg")
  /\ SetState([ui EXCEPT !.intersectionAngleDeg = DefaultIntersectionAngleDeg])
  /\ StateOnly

(***************************************************************************)
(* Step inputs.  A typed text is what parseFloat / parseInt make of it:    *)
(* NaN, or a number (hundredths).  `x || d` falls back on NaN and on 0.    *)
(***************************************************************************)
NaN == [nan |-> TRUE, value |-> 0]
Num(v) == [nan |-> FALSE, value |-> v]

OrElse(p, d) == IF p.nan \/ p.value = 0 THEN d ELSE p.value

\* parseInt keeps the integer part (toward zero); the result is in units
parseInt(p) ==
  IF p.nan THEN NaN
  ELSE Num(IF p.value >= 0 THEN p.value \div 100 ELSE -((-p.value) \div 100))

TypedArcSteps == {NaN, Num(-300), Num(270), Num(25000)}
TypedAngleSteps == {NaN, Num(-500), Num(4500), Num(9000)}
TypedRotationSteps == {Num(9000)}
Chips == {1, 5, 15}

setArcStepPercent(v) ==
  /\ Handler("setArcStepPercent")
  /\ SetState([ui EXCEPT !.arcStepPercent = v])
  /\ StateOnly

typeArcStepPercent(text) ==
  setArcStepPercent(Max(MinArcStep, OrElse(parseInt(text), MinArcStep)))

setContactAngleStep(v) ==
  /\ Handler("setContactAngleStep")
  /\ SetState([ui EXCEPT !.contactAngleStep = v])
  /\ StateOnly

typeContactAngleStep(text) ==
  setContactAngleStep(Max(MinStep, OrElse(text, MinStep)))

setIntersectionAngleStep(v) ==
  /\ Handler("setIntersectionAngleStep")
  /\ SetState([ui EXCEPT !.intersectionAngleStep = v])
  /\ StateOnly

typeIntersectionAngleStep(text) ==
  setIntersectionAngleStep(Max(MinStep, OrElse(text, MinStep)))

setStepDeg(v) ==
  /\ Handler("setStepDeg")
  /\ SetState([ui EXCEPT !.stepDeg = v])
  /\ StateOnly

typeStepDeg(text) == setStepDeg(Max(MinStep, OrElse(text, MinStep)))

\* theme toggle, gizmo toggle, the two check boxes
setDark ==
  /\ Handler("setDark")
  /\ SetState([ui EXCEPT !.dark = ~@])
  /\ StateOnly

setGizmoMode ==
  /\ Handler("setGizmoMode")
  /\ SetState([ui EXCEPT !.gizmoMode =
                 IF @ = "object" THEN "world" ELSE "object"])
  /\ StateOnly

setShowBackEquator(checked) ==
  /\ Handler("setShowBackEquator")
  /\ SetState([ui EXCEPT !.showBackEquator = checked])
  /\ StateOnly

setShowBackMeridians(checked) ==
  /\ Handler("setShowBackMeridians")
  /\ SetState([ui EXCEPT !.showBackMeridians = checked])
  /\ StateOnly

(***************************************************************************)
(* Orientation commands.  The exact arithmetic covers turns by multiples   *)
(* of 90 degrees, kept in quaternion, and fine turns of at most MaxTurn    *)
(* about one local axis from the default orientation, kept in turn:        *)
(* globe.quaternion is quaternion * setFromAxisAngle(turn.axis, turn.deg). *)
(* rotateBy is explored for the step sizes in ExactSteps and for the steps *)
(* that stay inside MaxTurn.                                               *)
(***************************************************************************)
ExactSteps == {9000}
Axes == {"x", "y", "z"}

AxisVector(axis) ==
  CASE axis = "x" -> <<1, 0, 0>>
    [] axis = "y" -> <<0, 1, 0>>
    [] axis = "z" -> <<0, 0, 1>>

PoseOnly ==
  UNCHANGED <<ui, gizmoModeRef, lifeVars, sceneVars, paintVars, frameView, themeView, hudVars,
              pend, error>>

\* the turns the arithmetic covers
Covered(axis, sign) ==
  IF ui.stepDeg \in ExactSteps
  THEN turn.deg = 0
  ELSE /\ quaternion = defaultQuat
       /\ turn.deg = 0 \/ turn.axis = axis
       /\ Abs(turn.deg + sign * ui.stepDeg) <= MaxTurn

\* turn after a further fine turn of deg about axis
turned(axis, deg) ==
  IF turn.deg + deg = 0 THEN NoTurn
  ELSE [axis |-> axis, deg |-> turn.deg + deg]

\* a rotation applied in world space: q * g.quaternion
rotateByWorld(axis, sign) ==
  /\ Handler("rotateBy")
  /\ Covered(axis, sign)
  /\ IF "globeRef" \notin refs
     THEN UNCHANGED <<quaternion, turn>>
     ELSE IF ui.stepDeg \in ExactSteps
          THEN /\ quaternion' =
                    multiply(setFromAxisAngle(AxisVector(axis),
                                              (ui.stepDeg \div 100) * sign),
                             quaternion)
               /\ UNCHANGED turn
          ELSE /\ turn' = turned(axis, sign * ui.stepDeg)
               /\ UNCHANGED quaternion
  /\ quaternionBefore' = quaternion
  /\ cameraBefore' = cameraPosition
  /\ UNCHANGED <<cameraPosition, rfrK>>
  /\ PoseOnly

\* a rotation that turns the camera about the globe instead
rotateByOrbit(axis, sign) ==
  /\ Handler("rotateBy")
  /\ Covered(axis, sign)
  /\ cameraPosition' = IF "globeRef" \in refs THEN <<CameraZ, 0, 0>>
                       ELSE cameraPosition
  /\ quaternionBefore' = quaternion
  /\ cameraBefore' = cameraPosition
  /\ UNCHANGED <<quaternion, turn, rfrK>>
  /\ PoseOnly

rotateBy(axis, sign) ==
  /\ Handler("rotateBy")
  /\ Covered(axis, sign)
  /\ IF "globeRef" \notin refs
     THEN UNCHANGED <<quaternion, turn>>
     ELSE IF ui.stepDeg \in ExactSteps
          THEN /\ quaternion' =
                    multiply(quaternion,
                             setFromAxisAngle(AxisVector(axis),
                                              (ui.stepDeg \div 100) * sign))
               /\ UNCHANGED turn
          ELSE /\ turn' = turned(axis, sign * ui.stepDeg)
               /\ UNCHANGED quaternion
  /\ quaternionBefore' = quaternion
  /\ cameraBefore' = cameraPosition
  /\ UNCHANGED <<cameraPosition, rfrK>>
  /\ PoseOnly

\* a reset that restores the globe and leaves the camera where it is
resetGlobeOnly ==
  /\ Handler("resetOrientation")
  /\ quaternion' = IF "globeRef" \in refs THEN defaultQuat ELSE quaternion
  /\ turn' = IF "globeRef" \in refs THEN NoTurn ELSE turn
  /\ quaternionBefore' = quaternion
  /\ cameraBefore' = cameraPosition
  /\ UNCHANGED <<cameraPosition, rfrK>>
  /\ PoseOnly

\* a reset of the orientation and the camera that leaves the parameters
resetAllPose ==
  /\ Handler("resetAll")
  /\ quaternion' = IF "globeRef" \in refs THEN defaultQuat ELSE quaternion
  /\ turn' = IF "globeRef" \in refs THEN NoTurn ELSE turn
  /\ cameraPosition' = IF "controlsRef" \in refs THEN cameraInit
                       ELSE cameraPosition
  /\ quaternionBefore' = quaternion
  /\ cameraBefore' = cameraPosition
  /\ UNCHANGED rfrK
  /\ PoseOnly

\* a reset that restores the camera and leaves the globe as it is
resetCameraOnly ==
  /\ Handler("resetOrientation")
  /\ cameraPosition' = IF "controlsRef" \in refs THEN cameraInit
                       ELSE cameraPosition
  /\ quaternionBefore' = quaternion
  /\ cameraBefore' = cameraPosition
  /\ UNCHANGED <<quaternion, turn, rfrK>>
  /\ PoseOnly

resetOrientation ==
  /\ Handler("resetOrientation")
  /\ quaternion' = IF "globeRef" \in refs THEN defaultQuat ELSE quaternion
  /\ turn' = IF "globeRef" \in refs THEN NoTurn ELSE turn
  /\ cameraPosition' = IF "controlsRef" \in refs THEN cameraInit
                       ELSE cameraPosition
  /\ quaternionBefore' = quaternion
  /\ cameraBefore' = cameraPosition
  /\ UNCHANGED rfrK
  /\ PoseOnly

\* resetOrientation(), then the three setters, batched into one update
resetAll ==
  /\ Handler("resetAll")
  /\ quaternion' = IF "globeRef" \in refs THEN defaultQuat ELSE quaternion
  /\ turn' = IF "globeRef" \in refs THEN NoTurn ELSE turn
  /\ cameraPosition' = IF "controlsRef" \in refs THEN cameraInit
                       ELSE cameraPosition
  /\ quaternionBefore' = quaternion
  /\ cameraBefore' = cameraPosition
  /\ SetState([ui EXCEPT !.arcLengthScale = DefaultArcLengthScale,
                         !.contactAngleDeg = DefaultContactAngleDeg,
                         !.intersectionAngleDeg = DefaultIntersectionAngleDeg])
  /\ UNCHANGED <<gizmoModeRef, lifeVars, sceneVars, paintVars, frameView, themeView, hudVars, rfrK,
                 error>>

\* the pointer drags the camera around the target (OrbitControls)
CameraPositions == {cameraInit, <<16, 0, 50>>}

orbit(p) ==
  /\ Handler("orbit")
  /\ "controlsRef" \in refs
  /\ cameraPosition' = p
  /\ UNCHANGED <<quaternion, quaternionBefore, turn, cameraBefore, rfrK>>
  /\ PoseOnly

(***************************************************************************)
(* randomFrontRotation.  One draw is (u, phi, angle); Math.random() is in  *)
(* [0, 1), so u = -1 can be drawn and u = 1 cannot.  The draws explored    *)
(* are the ones the exact arithmetic covers.                               *)
(***************************************************************************)
Draws == [u : {-1, 0}, phi : {0, 90}, angle : {0, 90}]

CosDeg(deg) == CASE deg = 0 -> 1 [] deg = 90 -> 0 [] deg = 180 -> -1
                 [] deg = 270 -> 0
SinDeg(deg) == CASE deg = 0 -> 0 [] deg = 90 -> 1 [] deg = 180 -> 0
                 [] deg = 270 -> -1

\* axis.set(s cos(phi), s sin(phi), u) with s = sqrt(1 - u u)
drawAxis(d) ==
  LET s == IF d.u = 0 THEN 1 ELSE 0
  IN <<s * CosDeg(d.phi), s * SinDeg(d.phi), d.u>>

qCand(d) == multiply(defaultQuat, setFromAxisAngle(drawAxis(d), d.angle))

\* normalLocal.clone().applyQuaternion(q), as an integer vector
nWorld(q) ==
  LET n == applyQuaternion(<<1, 0, 0>>, q) IN <<n[1][1], n[2][1], n[3][1]>>

Dot(a, b) == a[1] * b[1] + a[2] * b[2] + a[3] * b[3]

\* nWorld.dot(cam.position - RADIUS nWorld normalised) > 0.2, in tenths:
\* d / |v| > 1/5 is d > 0 and 25 d d > v.v
\* the test with the threshold at 0 instead of 0.2
acceptsFacing(n, cam) ==
  Dot(n, <<cam[1] - RADIUS * n[1], cam[2] - RADIUS * n[2],
           cam[3] - RADIUS * n[3]>>) > 0

accepts(n, cam) ==
  LET v == <<cam[1] - RADIUS * n[1], cam[2] - RADIUS * n[2],
             cam[3] - RADIUS * n[3]>>
      d == Dot(n, v)
  IN d > 0 /\ 25 * d * d > Dot(v, v)

\* the candidate of each draw and its face normal in world space
Candidate == [d \in Draws |-> qCand(d)]
CandidateNormal == [d \in Draws |-> nWorld(Candidate[d])]

Loop == <<"loop", "randomFrontRotation">>

randomFrontRotation ==
  /\ Handler("randomFrontRotation")
  /\ IF "globeRef" \notin refs \/ "cameraRef" \notin refs
     THEN UNCHANGED <<pend, rfrK>>
     ELSE pend' = <<Loop>> /\ rfrK' = 0
  /\ quaternionBefore' = quaternion
  /\ cameraBefore' = cameraPosition
  /\ UNCHANGED <<ui, gizmoModeRef, lifeVars, sceneVars, paintVars, quaternion,
                 turn, cameraPosition, frameView, themeView, hudVars, error>>

\* a loop that installs its last candidate when all were rejected
lastCandidateStep(d) ==
  /\ Running(Loop)
  /\ IF rfrK < MaxAttempts /\ ~accepts(CandidateNormal[d], cameraPosition)
     THEN /\ rfrK' = rfrK + 1
          /\ UNCHANGED <<quaternion, turn, pend>>
     ELSE /\ quaternion' = Candidate[d]
          /\ turn' = NoTurn
          /\ pend' = Tail(pend)
          /\ rfrK' = 0
  /\ UNCHANGED <<ui, gizmoModeRef, lifeVars, sceneVars, paintVars,
                 cameraPosition, quaternionBefore, cameraBefore, frameView,
                 themeView, hudVars, lastCommand, error, nEvents>>

\* one pass of for (k = 0; k < 400; k++), or the exit when k reached 400
randomFrontRotationStep(d) ==
  /\ Running(Loop)
  /\ IF rfrK < MaxAttempts
     THEN IF accepts(CandidateNormal[d], cameraPosition)
          THEN /\ quaternion' = Candidate[d]
               /\ turn' = NoTurn
               /\ pend' = Tail(pend)
               /\ rfrK' = 0
          ELSE /\ rfrK' = rfrK + 1
               /\ UNCHANGED <<quaternion, turn, pend>>
     ELSE /\ pend' = Tail(pend)
          /\ rfrK' = 0
          /\ UNCHANGED <<quaternion, turn>>
  /\ UNCHANGED <<ui, gizmoModeRef, lifeVars, sceneVars, paintVars,
                 cameraPosition, quaternionBefore, cameraBefore, frameView,
                 themeView, hudVars, lastCommand, error, nEvents>>

(***************************************************************************)
(* The frame callback and the unmount                                      *)
(***************************************************************************)
\* the HUD: at most one evaluation per HudInterval ms, and a new value only
\* when a reading is more than HudThreshold (0.1 degrees) from the stored one
HudInterval == 60
HudThreshold == 10

identity == Quat(ZZero, ZZero, ZZero, ZInt(2))

\* THREE.Quaternion.invert: the conjugate
invert(q) == Quat(ZNeg(q.x), ZNeg(q.y), ZNeg(q.z), q.w)

\* camera.quaternion of a camera at p looking at the origin
cameraQuaternion(p) == CASE p = cameraInit -> identity

\* qVO0.copy(camInitQuatRef.current).invert().multiply(defaultQuatRef.current)
qVO0 == multiply(invert(cameraQuaternion(cameraInit)), defaultQuat)

qRel(mode, cam, q) ==
  IF mode = "object"
  THEN multiply(invert(qVO0), multiply(invert(cameraQuaternion(cam)), q))
  ELSE multiply(invert(defaultQuat), q)

\* wrapDeg, on hundredths of a degree: into [-180, 180)
wrapDeg(d) == ((((d + 18000) % 36000) + 36000) % 36000) - 18000

\* radToDeg(Math.asin(v)) and radToDeg(Math.atan2(y, x)) for v, y, x in
\* {-1, 0, 1}
asinDeg(v) == 9000 * v
atan2Deg(y, x) ==
  IF y = 0 THEN (IF x < 0 THEN 18000 ELSE 0)
  ELSE IF x = 0 THEN 9000 * y
  ELSE IF x > 0 THEN 4500 * y ELSE 13500 * y

\* THREE.Euler.setFromQuaternion(q, "XYZ") in degrees, q a turn by multiples
\* of 90 degrees: m(i, j) is the rotation matrix
setFromQuaternion(q) ==
  LET m(i, j) == applyQuaternion([k \in 1..3 |-> IF k = j THEN 1 ELSE 0],
                                 q)[i][1]
  IN IF Abs(m(1, 3)) < 1
     THEN <<atan2Deg(-m(2, 3), m(3, 3)), asinDeg(m(1, 3)),
            atan2Deg(-m(1, 2), m(1, 1))>>
     ELSE <<atan2Deg(m(3, 2), m(2, 2)), asinDeg(m(1, 3)), 0>>

\* ax, ay, az.  While turn.deg # 0 the exact part of qRel is the identity
\* (Covered), and the XYZ angles of a turn by t about one axis, |t| < 90
\* degrees, are t on that axis and 0 on the others.
hudAngles ==
  LET e == setFromQuaternion(qRel(gizmoModeRef, cameraPosition, quaternion))
      fine(k) == IF AxisVector(turn.axis)[k] = 1 THEN turn.deg ELSE 0
  IN [k \in 1..3 |-> wrapDeg(e[k] + fine(k))]

\* a HUD that is evaluated on every frame
hudEveryFrame ==
  IF \E k \in 1..3 : Abs(hud.anglesRef[k] - hudAngles[k]) > HudThreshold
  THEN [lastHUD |-> now, anglesRef |-> hudAngles, angles |-> hudAngles]
  ELSE [hud EXCEPT !.lastHUD = now]

\* if (now - lastHUD > 60) { ... lastHUD = now }
hudStep ==
  IF now - hud.lastHUD > HudInterval
  THEN IF \E k \in 1..3 : Abs(hud.anglesRef[k] - hudAngles[k]) > HudThreshold
       THEN [lastHUD |-> now, anglesRef |-> hudAngles, angles |-> hudAngles]
       ELSE [hud EXCEPT !.lastHUD = now]
  ELSE hud

\* a frame callback that could run in the middle of a handler
tornFrame ==
  /\ animationLoop # {}
  /\ frameView' = [tags |-> {shape[o] : o \in children \cap GlobeObjects},
                   dead |-> {o \in children : geometry[o] \in disposed}]
  /\ hud' = hudStep
  /\ UNCHANGED <<ui, gizmoModeRef, lifeVars, sceneVars, paintVars, poseVars,
                 themeView, now, pend, rfrK, lastCommand, error, nEvents>>

\* the frame callback: renderer.render(scene, camera) (what the renderer
\* reads), then the HUD
Frame ==
  /\ animationLoop # {}
  /\ pend = <<>>
  /\ frameView' = [tags |-> {shape[o] : o \in children \cap GlobeObjects},
                   dead |-> {o \in children : geometry[o] \in disposed}]
  /\ hud' = hudStep
  /\ UNCHANGED <<ui, gizmoModeRef, lifeVars, sceneVars, paintVars, poseVars,
                 themeView, now, pend, rfrK, lastCommand, error, nEvents>>

\* time passes between two tasks
Elapse(dt) ==
  /\ now + dt <= MaxNow
  /\ now' = now + dt
  /\ UNCHANGED <<ui, gizmoModeRef, lifeVars, sceneVars, paintVars, poseVars,
                 frameView, themeView, hud, pend, rfrK, lastCommand, error,
                 nEvents>>

\* the cleanup the scene-init effect returned, if it returned one
Unmount ==
  /\ Idle
  /\ phase' = "unmounted"
  /\ lastCommand' = "unmount"
  /\ IF Built
     THEN /\ animationLoop' = setAnimationLoop(animationLoop, "null")
          /\ disposed' = disposed \cup {geometry[o] : o \in children}
                                  \cup {Material(o) : o \in children}
     ELSE UNCHANGED <<animationLoop, disposed>>
  /\ UNCHANGED <<ui, gizmoModeRef, container, refs, children, geometry, shape,
                 layout, allocated, allocs, paintVars, poseVars, frameView, themeView, hudVars, pend, rfrK,
                 error, nEvents>>

(***************************************************************************)
(* Specifications.  Spec explores the life cycle, the parameter and theme  *)
(* commands and the frame loop, for at most MaxEvents user events.         *)
(* SpecOrient explores the orientation commands without an event budget.   *)
(***************************************************************************)
\* a user event counts against the budget, or does not
Tick == nEvents < MaxEvents /\ nEvents' = nEvents + 1
Free == UNCHANGED nEvents

\* the running task's next step
EffectStep ==
  \/ themeEffect
  \/ themeEffect2
  \/ backEquatorEffect
  \/ backMeridiansEffect
  \/ arcLengthEffect
  \/ contactAngleEffect
  \/ intersectionAngleEffect
  \/ \E n \in {"paperLeft", "paperRight", "capLeft", "capRight",
               "yzIntersectionLine"} : disposeGeometry(n)
  \/ \E n \in {"paperLeft", "paperRight", "capLeft", "capRight",
               "yzIntersectionLine"} : installGeometry(n)
  \/ updateIntersectionDots
  \/ updateEquatorPoints

Step == setDarkFromOS \/ gizmoModeEffect \/ EffectStep

Next ==
  \/ \E osDark \in BOOLEAN : sceneInit(osDark)
  \/ Step
  \/ Frame
  \/ Unmount
  \/ \E sign \in Signs : changeArcLength(sign) /\ Tick
  \/ \E sign \in Signs : changeContactAngle(sign) /\ Tick
  \/ \E sign \in Signs : changeIntersectionAngle(sign) /\ Tick
  \/ setArcLengthScale /\ Tick
  \/ setContactAngleDeg /\ Tick
  \/ setIntersectionAngleDeg /\ Tick
  \/ \E v \in Chips : setArcStepPercent(v) /\ Tick
  \/ \E text \in TypedArcSteps : typeArcStepPercent(text) /\ Tick
  \/ \E v \in Chips : setContactAngleStep(100 * v) /\ Tick
  \/ \E text \in TypedAngleSteps : typeContactAngleStep(text) /\ Tick
  \/ \E v \in Chips : setIntersectionAngleStep(100 * v) /\ Tick
  \/ \E text \in TypedAngleSteps : typeIntersectionAngleStep(text) /\ Tick
  \/ setDark /\ Tick
  \/ setGizmoMode /\ Tick
  \/ \E checked \in BOOLEAN : setShowBackEquator(checked) /\ Tick
  \/ \E checked \in BOOLEAN : setShowBackMeridians(checked) /\ Tick
  \/ resetOrientation /\ Tick
  \/ resetAll /\ Tick

Spec == Init /\ [][Next]_vars

NextOrient ==
  \/ sceneInit(FALSE)
  \/ EffectStep
  \/ \E text \in TypedRotationSteps : typeStepDeg(text) /\ Free
  \/ \E axis \in Axes, sign \in Signs : rotateBy(axis, sign) /\ Free
  \/ randomFrontRotation /\ Free
  \/ \E d \in Draws : randomFrontRotationStep(d)
  \/ resetOrientation /\ Free
  \/ \E p \in CameraPositions : orbit(p) /\ Free

SpecOrient == Init /\ [][NextOrient]_vars

\* the component mounted where mountRef.current is null
NextNoContainer ==
  \/ \E osDark \in BOOLEAN : sceneInit(osDark)
  \/ setDarkFromOS
  \/ gizmoModeEffect
  \/ themeEffect
  \/ themeEffect2
  \/ backEquatorEffect
  \/ backMeridiansEffect
  \/ arcLengthEffect
  \/ contactAngleEffect
  \/ intersectionAngleEffect
  \/ Unmount
  \/ \E sign \in Signs : changeArcLength(sign) /\ Tick
  \/ \E sign \in Signs : changeContactAngle(sign) /\ Tick
  \/ \E sign \in Signs : changeIntersectionAngle(sign) /\ Tick
  \/ setArcLengthScale /\ Tick
  \/ setContactAngleDeg /\ Tick
  \/ setIntersectionAngleDeg /\ Tick
  \/ \E text \in TypedArcSteps : typeArcStepPercent(text) /\ Tick
  \/ \E text \in TypedAngleSteps : typeContactAngleStep(text) /\ Tick
  \/ \E text \in TypedAngleSteps : typeIntersectionAngleStep(text) /\ Tick
  \/ \E text \in TypedRotationSteps : typeStepDeg(text) /\ Tick
  \/ setDark /\ Tick
  \/ setGizmoMode /\ Tick
  \/ \E checked \in BOOLEAN : setShowBackEquator(checked) /\ Tick
  \/ \E checked \in BOOLEAN : setShowBackMeridians(checked) /\ Tick
  \/ \E axis \in Axes, sign \in Signs : rotateBy(axis, sign) /\ Tick
  \/ randomFrontRotation /\ Tick
  \/ resetOrientation /\ Tick
  \/ resetAll /\ Tick

SpecNoContainer == InitWith(FALSE) /\ [][NextNoContainer]_vars

\* the walk over the contact angles: a typed step, then the +/- buttons
ProbeSteps == {Num(ProbeGrain * k) : k \in 1..MaxProbe}

NextContact ==
  \/ sceneInit(FALSE)
  \/ EffectStep
  \/ \E text \in ProbeSteps : typeContactAngleStep(text) /\ Tick
  \/ \E sign \in Signs : changeContactAngle(sign) /\ Tick
  \/ setContactAngleDeg /\ Tick

SpecContact == InitWith(TRUE) /\ [][NextContact]_vars

\* the walk over the arc-length scales: nothing is allocated, so no budget
NextArc ==
  \/ sceneInit(FALSE)
  \/ EffectStep
  \/ \E sign \in Signs : changeArcLength(sign) /\ Free
  \/ \E v \in Chips : setArcStepPercent(v) /\ Free
  \/ setArcLengthScale /\ Free

SpecArc == InitWith(TRUE) /\ [][NextArc]_vars

\* the walk over the intersection angles: a typed step, then the +/- buttons
NextIntersection ==
  \/ sceneInit(FALSE)
  \/ EffectStep
  \/ \E text \in ProbeSteps : typeIntersectionAngleStep(text) /\ Tick
  \/ \E sign \in Signs : changeIntersectionAngle(sign) /\ Tick
  \/ setIntersectionAngleDeg /\ Tick

SpecIntersection == InitWith(TRUE) /\ [][NextIntersection]_vars

\* the frame loop and its HUD under fine turns: the clock advances by the
\* times in FrameTimes
FrameTimes == {30, 31}
FineSteps == {Num(10)}

NextHud ==
  \/ sceneInit(FALSE)
  \/ gizmoModeEffect
  \/ EffectStep
  \/ \E text \in FineSteps : typeStepDeg(text) /\ Free
  \/ \E axis \in Axes, sign \in Signs : rotateBy(axis, sign) /\ Free
  \/ setGizmoMode /\ Free
  \/ resetOrientation /\ Free
  \/ Frame
  \/ \E dt \in FrameTimes : Elapse(dt)
  \/ Unmount

SpecHud == InitWith(TRUE) /\ [][NextHud]_vars

\* resetAll after the commands that move the globe, the camera, the
\* parameters, a step size and the display settings
NextReset ==
  \/ sceneInit(FALSE)
  \/ gizmoModeEffect
  \/ EffectStep
  \/ randomFrontRotation /\ Tick
  \/ \E d \in Draws : randomFrontRotationStep(d)
  \/ \E p \in CameraPositions : orbit(p) /\ Free
  \/ \E sign \in Signs : changeArcLength(sign) /\ Tick
  \/ \E sign \in Signs : changeContactAngle(sign) /\ Tick
  \/ \E sign \in Signs : changeIntersectionAngle(sign) /\ Tick
  \/ \E v \in Chips : setContactAngleStep(100 * v) /\ Tick
  \/ setDark /\ Tick
  \/ setGizmoMode /\ Tick
  \/ \E checked \in BOOLEAN : setShowBackEquator(checked) /\ Tick
  \/ resetAll /\ Tick

SpecReset == InitWith(TRUE) /\ [][NextReset]_vars

(***************************************************************************)
(* Properties                                                              *)
(***************************************************************************)

\* C1: the three parameters stay in their ranges whatever buttons are
\* pressed: 0.1 <= ContactAngle <= 89.9, 0 <= IntersectionAngle <= 90 and
\* 0 <= ArcLengthScale <= 200, after every change, reset and reset-all.
ParametersInRange ==
  /\ ui.contactAngleDeg \in ContactMin..ContactMax
  /\ ui.intersectionAngleDeg \in 0..IntersectionMax
  /\ ui.arcLengthScale \in 0..ArcMax

\* a change that ran into the upper bound, with a step that overshoots it
ClampedAtBound ==
  /\ lastCommand = "changeContactAngle"
  /\ ui.contactAngleDeg = ContactMax
  /\ ui.contactAngleStep = 9000

\* the elements whose geometry the angle handlers replace, and the buffers
\* they can hold
Replaceable == Papers \cup Caps \cup {Obj("yzIntersectionLine")}
ReplaceableBuffers ==
  {InitialGeometry(o) : o \in Replaceable}
  \cup {Geo(c, i) : c \in {"CircleGeometry", "SphereGeometry", "BufferGeometry"},
                    i \in 1..allocs}
LiveReplaceable == (ReplaceableBuffers \cap allocated) \ disposed

\* C2: a replace-buffer operation disposes the element's previous geometry
\* before it assigns the new one, and the number of live replaceable buffers
\* never exceeds one per replaceable element (five), and is five whenever the
\* mounted component is idle.
ReplaceDisposesFirst ==
  /\ [](Built => /\ Cardinality(LiveReplaceable) <= Cardinality(Replaceable)
                 /\ Idle => Cardinality(LiveReplaceable) = Cardinality(Replaceable))
  /\ [][Built => \A o \in Replaceable :
                   geometry'[o] # geometry[o] => geometry[o] \in disposed]_vars

\* three parameter changes later: two contact-angle changes and one
\* intersection-angle change have replaced nine buffers since the mount
ReplacedRepeatedly ==
  /\ Idle
  /\ lastCommand = "changeIntersectionAngle"
  /\ allocs = 14

\* C3: once the component is unmounted the frame loop is stopped and every
\* geometry and material buffer allocated during the session has been
\* disposed, the template geometries that were only cloned included.
UnmountReleasesAll ==
  (phase = "unmounted" /\ Built) =>
     /\ animationLoop = {}
     /\ allocated \subseteq disposed

\* the unmounted component, with the buffers its cleanup did not reach
UnmountLeaksTemplates ==
  /\ phase = "unmounted"
  /\ Built
  /\ animationLoop = {}
  /\ allocated \ disposed = TemplateGeometries

\* C4: a render of the frame loop never draws an element whose current
\* geometry is disposed, and never draws elements of one parameter that were
\* placed from different values of it (or not placed at all yet).
FrameSeesWholeUpdates ==
  /\ frameView.dead = {}
  /\ Placeholder \notin frameView.tags
  /\ \A s \in frameView.tags, t \in frameView.tags : s[1] = t[1] => s = t

\* a frame rendered after a contact-angle change: all of its elements are
\* drawn from the new value
FrameAfterChange ==
  /\ lastCommand = "changeContactAngle"
  /\ ui.contactAngleDeg # DefaultContactAngleDeg
  /\ <<"contactAngle", ui.contactAngleDeg>> \in frameView.tags

\* the arc polyline of the intersection-angle handler
Arc == Obj("yzIntersectionLine")

\* element o is given a new geometry object, built by the handler of
\* parameter p from a value other than the one it was last built from
Rebuilt(o, p, value) ==
  /\ shape'[o] = <<p, value>>
  /\ shape[o] # shape'[o]

\* C5 (as stated): the elements are created once and never recreated, and
\* the only elements whose geometry object is replaced are the two plane
\* disks and the two caps, on a change of the contact angle.
OnlyDisksReplaced ==
  [][Built => /\ children' = children
              /\ \A o \in children :
                   geometry'[o] # geometry[o] =>
                     /\ o \in Papers \cup Caps
                     /\ Rebuilt(o, "contactAngle", ui.contactAngleDeg)]_vars

\* C5 (amended): the elements are created once and never recreated; the
\* elements whose geometry object is replaced are the two plane disks and
\* the two caps, by the contact-angle handler, and the arc polyline, by the
\* intersection-angle handler, each when its angle differs from the one the
\* geometry was last built from (the first run builds from the placeholder).
OnlyDisksAndArcReplaced ==
  [][Built => /\ children' = children
              /\ \A o \in children :
                   geometry'[o] # geometry[o] =>
                     \/ /\ o \in Papers \cup Caps
                        /\ Rebuilt(o, "contactAngle", ui.contactAngleDeg)
                     \/ /\ o = Arc
                        /\ Rebuilt(o, "intersectionAngle",
                                   ui.intersectionAngleDeg)]_vars

\* both kinds of replacement have happened since the mount
DisksAndArcReplaced ==
  /\ Idle
  /\ Built
  /\ children = SceneObjects
  /\ geometry[Obj("paperLeft")] \notin {InitialGeometry(Obj("paperLeft")),
                                        Geo("CircleGeometry", 1)}
  /\ geometry[Arc] \notin {InitialGeometry(Arc), Geo("BufferGeometry", 5)}

\* C6: after any sequence of rotateBy calls, resetOrientation leaves the
\* globe's quaternion exactly equal to the default orientation, the
\* quaternion of Euler(0, -90 degrees, 0).
ResetRestoresDefault ==
  (lastCommand = "resetOrientation" /\ "globeRef" \in refs) =>
     quaternion = defaultQuat

\* a reset that found the globe turned away from the default
ResetAfterTurns ==
  /\ lastCommand = "resetOrientation"
  /\ "globeRef" \in refs
  /\ quaternionBefore # defaultQuat
  /\ quaternion = defaultQuat

\* dot(n, normalize(cam - RADIUS n)) > 0.2 for the face normal n of
\* orientation q: with v = cam - RADIUS n, n.v > 0 and 25 (n.v)^2 > v.v
FrontFacing(q, cam) ==
  LET n == nWorld(q)
      v == <<cam[1] - RADIUS * n[1], cam[2] - RADIUS * n[2],
             cam[3] - RADIUS * n[3]>>
  IN Dot(n, v) > 0 /\ 25 * Dot(n, v) * Dot(n, v) > Dot(v, v)

\* C7: randomFrontRotation leaves the orientation as it was, or sets it to
\* a candidate (the default orientation composed with a sampled axis-angle
\* rotation) whose face normal n has dot(n, normalize(camera - RADIUS n))
\* > 0.2; a candidate that fails the test is never installed.
RandomRotationFacesCamera ==
  lastCommand = "randomFrontRotation" =>
     \/ quaternion = quaternionBefore
     \/ /\ \E d \in Draws : quaternion = qCand(d)
        /\ FrontFacing(quaternion, cameraPosition)

\* a candidate was installed, seen from a camera the pointer had moved
CandidateInstalled ==
  /\ lastCommand = "randomFrontRotation"
  /\ pend = <<>>
  /\ quaternion # quaternionBefore
  /\ cameraPosition # cameraInit

\* C8: randomFrontRotation ends after at most 400 draws: every pass of the
\* loop either ends the call or counts one more rejected draw, the count
\* never exceeds 400, and when 400 draws were rejected the call returns
\* with the orientation it started from and without an error.
RandomRotationBounded ==
  /\ [](rfrK \in 0..MaxAttempts)
  /\ [][Running(Loop) =>
          IF rfrK < MaxAttempts
          THEN \/ pend' = <<>>
               \/ rfrK' = rfrK + 1 /\ quaternion' = quaternion
          ELSE /\ pend' = <<>>
               /\ quaternion' = quaternionBefore
               /\ error' = FALSE]_vars

\* all 400 draws were rejected
AllRejected ==
  /\ Running(Loop)
  /\ rfrK = MaxAttempts
  /\ quaternion = quaternionBefore

\* C9: when the container is missing the scene-init effect returns at its
\* guard: no scene, no globe, no buffer and no frame loop exist; and after
\* that every handler and every effect returns without an error, without
\* creating or disposing anything and without changing a colour, a depth
\* flag, the orientation or the camera.
NoContainerNoScene ==
  (~container /\ phase # "init") =>
     /\ refs = {}
     /\ children = {}
     /\ geometry = <<>>
     /\ shape = <<>>
     /\ allocated = {}
     /\ disposed = {}
     /\ allocs = 0
     /\ animationLoop = {}
     /\ frameView = NoView
     /\ color = CreatedColors
     /\ depthTest = [equator |-> FALSE, meridians |-> FALSE]
     /\ quaternion = defaultQuat
     /\ cameraPosition = cameraInit
     /\ rfrK = 0
     /\ error = FALSE
     /\ pend # <<>> => Head(pend)[1] = "effect"

\* three commands went by without a container: a contact-angle change, a
\* typed rotation step and a rotateBy
CommandsWithoutScene ==
  /\ ~container
  /\ Idle
  /\ lastCommand = "rotateBy"
  /\ ui.contactAngleDeg # DefaultContactAngleDeg

\* the scalar parameters and toggles other than the theme
Parameters(u) == [u EXCEPT !.dark = FALSE]

Installed(o) == Built /\ shape[o][1] = "contactAngle"

Square(a) == MulFix(a, a)

\* C11: whatever contact angle the handler ran with, the radius it gave the
\* plane disks (intersectionRadius) and the offset it put them at
\* (planeOffset) lie strictly between 0 and RADIUS, and their squares add up
\* to RADIUS squared (to the accuracy Eps of the arithmetic).
ContactPlaneOnSphere ==
  \A o \in Papers :
    Installed(o) =>
      LET r == layout[o].radius
          z == Abs(layout[o].position[3])
      IN /\ 0 < r /\ r < R
         /\ 0 < z /\ z < R
         /\ Near(Square(r) + Square(z), Square(R))

\* the handler has run at the largest contact angle, where the radius is
\* within a thousandth of RADIUS
DisksAtLargestAngle ==
  /\ Built
  /\ Idle
  /\ ui.contactAngleDeg = ContactMax
  /\ \A o \in Papers : shape[o] = <<"contactAngle", ContactMax>>
  /\ layout[Obj("paperRight")].radius > R - R \div 1000

\* the contact-angle handler has finished for the current contact angle
ContactSettled ==
  /\ Built
  /\ Idle
  /\ \A o \in Papers \cup Caps :
       shape[o] = <<"contactAngle", ui.contactAngleDeg>>

\* v is no farther from limit than RADIUS times the angle dist (radians):
\* v tends to limit as dist tends to 0
Approaches(v, limit, dist) == Abs(v - limit) <= TimesRadius(dist) + Eps

\* the distance of the contact angle from 0 and from 90 degrees, in radians
FromZero == degToRad(ui.contactAngleDeg)
FromNinety == degToRad(9000 - ui.contactAngleDeg)

\* C12 as stated: towards 0 the disk radius tends to RADIUS and the plane
\* offset and the cap half-angle to 0, towards 90 degrees the radius tends to
\* 0 and the offset to RADIUS; the radius is largest and the offset smallest
\* at the smallest contact angle.
BoundaryAsStated ==
  ContactSettled =>
    \A o \in Papers :
      LET r == layout[o].radius
          z == Abs(layout[o].position[3])
      IN /\ Approaches(r, R, FromZero)
         /\ Approaches(z, 0, FromZero)
         /\ \A k \in Caps : layout[k].thetaLength <= FromZero + Eps
         /\ Approaches(r, 0, FromNinety)
         /\ Approaches(z, R, FromNinety)
         /\ r <= intersectionRadius(ContactMin)
         /\ z >= planeZ(ContactMin)

\* C12, amended: towards 0 the disk radius tends to 0, the plane offset to
\* RADIUS and the cap half-angle to 0; towards 90 degrees the radius tends to
\* RADIUS and the offset to 0; the radius is smallest and the offset largest
\* at the smallest contact angle.
BoundaryOfContactPlane ==
  ContactSettled =>
    \A o \in Papers :
      LET r == layout[o].radius
          z == Abs(layout[o].position[3])
      IN /\ Approaches(r, 0, FromZero)
         /\ Approaches(z, R, FromZero)
         /\ \A k \in Caps : layout[k].thetaLength <= FromZero + Eps
         /\ Approaches(r, R, FromNinety)
         /\ Approaches(z, 0, FromNinety)
         /\ r >= intersectionRadius(ContactMin)
         /\ z <= planeZ(ContactMin)

\* the handler has run at the smallest contact angle: the disks are within a
\* hundredth of RADIUS of the poles and smaller than a hundredth of RADIUS
DisksAtSmallestAngle ==
  /\ ContactSettled
  /\ ui.contactAngleDeg = ContactMin
  /\ layout[Obj("paperLeft")].radius < R \div 100
  /\ layout[Obj("paperLeft")].position[3] < -(R - R \div 100)

\* the cap k goes from the half-angle of one contact angle to that of another
CapReinstalled(k) ==
  /\ Built
  /\ shape[k][1] = "contactAngle"
  /\ shape'[k][1] = "contactAngle"
  /\ layout'[k] # layout[k] \/ shape'[k] # shape[k]

\* C13: the cap half-angle is strictly increasing in the contact angle: the
\* half-angle a cap holds lies strictly between those of the contact angles
\* one hundredth of a degree below and above, and whenever the handler
\* replaces a cap built for one angle by a cap for a larger (smaller) angle,
\* the half-angle becomes strictly larger (smaller).
CapAngleIncreasing ==
  /\ [](\A k \in Caps :
          Installed(k) =>
            /\ capAngle(shape[k][2] - 1) < layout[k].thetaLength
            /\ layout[k].thetaLength < capAngle(shape[k][2] + 1))
  /\ [][\A k \in Caps :
          CapReinstalled(k) =>
            /\ shape'[k][2] > shape[k][2] =>
                 layout'[k].thetaLength > layout[k].thetaLength
            /\ shape'[k][2] < shape[k][2] =>
                 layout'[k].thetaLength < layout[k].thetaLength]_vars

\* a + press has given the caps a larger half-angle than the one of mount
CapsWidened ==
  /\ ContactSettled
  /\ ui.contactAngleDeg > DefaultContactAngleDeg
  /\ lastCommand = "changeContactAngle"
  /\ \A k \in Caps :
       layout[k].thetaLength > capAngle(DefaultContactAngleDeg)

(***************************************************************************)
(* The guide dots of the arc length                                        *)
(***************************************************************************)
\* the arc-length handler has finished for the current scale
ArcSettled ==
  /\ Built
  /\ Idle
  /\ \A o \in ArcObjects : shape[o] = <<"arcLength", ui.arcLengthScale>>

\* the dot o is on the perpendicular line, num/den times len below its
\* reference point (RADIUS, 0, 0)
Below(o, num, den, len) ==
  /\ layout[o].position[1] = R
  /\ layout[o].position[3] = 0
  /\ layout[o].position[2] <= 0
  /\ Near(den * (-layout[o].position[2]), num * len)

\* C14 as stated: after the arc-length handler ran with scale s the six dots
\* are 1, 2, 1/3, 2/3, 1/2 and 1/4 times scaledArcLength below the reference
\* point.
DotsAtStatedFractions ==
  ArcSettled =>
    LET len == scaledArcLength(ui.arcLengthScale)
    IN /\ Below(Obj("arcPoint1"), 1, 1, len)
       /\ Below(Obj("arcPoint2"), 2, 1, len)
       /\ Below(Obj("divPoint1"), 1, 3, len)
       /\ Below(Obj("divPoint2"), 2, 3, len)
       /\ Below(Obj("halfPoint"), 1, 2, len)
       /\ Below(Obj("quarterPoint"), 1, 4, len)

\* C14, amended: after the arc-length handler ran with scale s the six dots
\* are 1, 2, 4/3, 5/3, 1/2 and 1/4 times scaledArcLength below the reference
\* point.
DotsAtFractions ==
  ArcSettled =>
    LET len == scaledArcLength(ui.arcLengthScale)
    IN /\ Below(Obj("arcPoint1"), 1, 1, len)
       /\ Below(Obj("arcPoint2"), 2, 1, len)
       /\ Below(Obj("divPoint1"), 4, 3, len)
       /\ Below(Obj("divPoint2"), 5, 3, len)
       /\ Below(Obj("halfPoint"), 1, 2, len)
       /\ Below(Obj("quarterPoint"), 1, 4, len)

\* the handler has run at the largest scale: the first dividing dot is more
\* than two base arc lengths below the reference point
DotsAtLargestScale ==
  /\ ArcSettled
  /\ ui.arcLengthScale = ArcMax
  /\ layout[Obj("divPoint1")].position[2] < -(2 * baseArcLength)

\* C15: whenever the arc-length handler has run with scale 100, whatever the
\* scale was before, the six guide dots and both ends of the perpendicular
\* line are exactly where the scene-init effect created them.
ScaleHundredIsMount ==
  (ArcSettled /\ ui.arcLengthScale = DefaultArcLengthScale) =>
    \A o \in ArcObjects : layout[o] = InitialLayout(o)

\* a press of + or - has brought the scale back to 100 from another scale,
\* and the handler has moved the dots back
BackAtHundred ==
  /\ ArcSettled
  /\ ui.arcLengthScale = DefaultArcLengthScale
  /\ lastCommand = "changeArcLength"
  /\ layout[Obj("arcPoint1")].position = <<R, -baseArcLength, 0>>

\* C16: whenever the arc-length handler has run with scale 0, the six guide
\* dots are at (RADIUS, 0, 0), the near end of the perpendicular line, and
\* the far end of the line is at the same point.
ScaleZeroCollapses ==
  (ArcSettled /\ ui.arcLengthScale = 0) =>
    /\ \A o \in GuideDots : layout[o].position = <<R, 0, 0>>
    /\ layout[Obj("perpendicularLine")].positions = << <<R, 0, 0>>, <<R, 0, 0>> >>

\* presses of - have brought the scale to 0 and the handler has run there
CollapsedAtZero ==
  /\ ArcSettled
  /\ ui.arcLengthScale = 0
  /\ lastCommand = "changeArcLength"
  /\ layout[Obj("arcPoint2")].position[2] = 0

\* C17: whenever the arc-length handler has run with scale s, the half dot
\* is at y = -(baseArcLength * s / 100) / 2; at s = 50 that is exactly where
\* the quarter dot was created, a quarter of the unscaled base arc length
\* below the reference point.
HalfDotAtHalf ==
  ArcSettled =>
    LET y == layout[Obj("halfPoint")].position[2]
        percent == baseArcLength \div 100
    IN /\ layout[Obj("halfPoint")].position =
            <<R, -(scaledArcLength(ui.arcLengthScale) \div 2), 0>>
       \* baseArcLength * s / 100, bracketed without the handler's product
       /\ ui.arcLengthScale * percent <= 2 * (-y) + 2
       /\ 2 * (-y) <= ui.arcLengthScale * (percent + 1)
       /\ ui.arcLengthScale = 50 =>
            /\ y = -(baseArcLength \div 4)
            /\ layout[Obj("halfPoint")].position =
                 InitialLayout(Obj("quarterPoint")).position

\* the handler has run at scale 50 and the half dot is below the reference
\* point, above the place it was created at
HalfDotAtFifty ==
  /\ ArcSettled
  /\ ui.arcLengthScale = 50
  /\ layout[Obj("halfPoint")].position[2] < 0
  /\ layout[Obj("halfPoint")].position[2] >
       InitialLayout(Obj("halfPoint")).position[2]

\* a step of an arc-length change: the press that changes the scale, or the
\* arc-length handler it starts
ArcLengthChange ==
  \/ ui'.arcLengthScale # ui.arcLengthScale /\ lastCommand' # "resetAll"
  \/ Running(Effect("arcLength"))

\* C18: an arc-length change touches only the y of the six guide dots and of
\* vertex 1 of the perpendicular line: no geometry object is replaced,
\* allocated or disposed, the near end of the line is (RADIUS, 0, 0) before
\* and after, and the elements of the contact angle and of the intersection
\* angle, the orientation and the camera are as before.
ArcLengthMutatesInPlace ==
  [][ArcLengthChange =>
       /\ children' = children
       /\ geometry' = geometry
       /\ allocated' = allocated
       /\ disposed' = disposed
       /\ quaternion' = quaternion
       /\ cameraPosition' = cameraPosition
       /\ \A o \in DOMAIN shape \ ArcObjects : shape'[o] = shape[o]
       /\ DOMAIN layout' = DOMAIN layout
       /\ \A o \in DOMAIN layout \ ArcObjects : layout'[o] = layout[o]
       /\ \A o \in DOMAIN layout \cap GuideDots :
            /\ layout'[o].position[1] = layout[o].position[1]
            /\ layout'[o].position[3] = layout[o].position[3]
       /\ Built =>
            LET was == layout[Obj("perpendicularLine")].positions
                after == layout'[Obj("perpendicularLine")].positions
            IN /\ was[1] = <<R, 0, 0>>
               /\ after[1] = <<R, 0, 0>>
               /\ after[2][1] = was[2][1]
               /\ after[2][3] = was[2][3]]_vars

\* an arc-length change has moved the dots and vertex 1 of the line, which is
\* still the line created at mount
ArcLengthChanged ==
  /\ ArcSettled
  /\ lastCommand = "changeArcLength"
  /\ ui.arcLengthScale # DefaultArcLengthScale
  /\ \A o \in ArcObjects : layout[o] # InitialLayout(o)
  /\ geometry[Obj("perpendicularLine")] =
       InitialGeometry(Obj("perpendicularLine"))

(***************************************************************************)
(* The elements placed by the contact-angle handler                        *)
(***************************************************************************)
\* C19: after the contact-angle handler has run for the angle c, both disks
\* have the radius RADIUS * cos(90 - c) = RADIUS * sin(c) and sit on the Z
\* axis at -planeOffset (left) and +planeOffset (right), planeOffset =
\* RADIUS * sin(90 - c) = RADIUS * cos(c); both caps have thetaLength c in
\* radians, the left one turned a quarter turn about -X and the right one a
\* quarter turn about +X.
DisksAndCapsFollowAngle ==
  ContactSettled =>
    LET left == layout[Obj("paperLeft")]
        right == layout[Obj("paperRight")]
    IN /\ left.radius = right.radius
       /\ Near(left.radius, TimesRadius(sin(FromZero)))
       /\ right.position[3] > 0
       /\ Near(right.position[3], TimesRadius(cos(FromZero)))
       /\ right.position = <<0, 0, right.position[3]>>
       /\ left.position = <<0, 0, -right.position[3]>>
       /\ \A k \in Caps : Near(layout[k].thetaLength, FromZero)
       /\ layout[Obj("capLeft")].thetaLength =
            layout[Obj("capRight")].thetaLength
       /\ layout[Obj("capLeft")].quaternion =
            Quat(<<0, -1>>, <<0, 0>>, <<0, 0>>, <<0, 1>>)
       /\ layout[Obj("capRight")].quaternion =
            Quat(<<0, 1>>, <<0, 0>>, <<0, 0>>, <<0, 1>>)

\* a - press has run the handler: the disks are smaller and farther out than
\* at mount
DisksMovedOut ==
  /\ ContactSettled
  /\ lastCommand = "changeContactAngle"
  /\ ui.contactAngleDeg < DefaultContactAngleDeg
  /\ layout[Obj("paperLeft")].radius < intersectionRadius(DefaultContactAngleDeg)
  /\ layout[Obj("paperLeft")].position[3] < -planeZ(DefaultContactAngleDeg)

\* the contact-angle handler has finished, dots and chords included
ContactDone ==
  /\ ContactSettled
  /\ \A o \in ContactObjects :
       shape[o] = <<"contactAngle", ui.contactAngleDeg>>

NearPoint(p, q) == Near(p[1], q[1]) /\ Near(p[2], q[2]) /\ Near(p[3], q[3])

\* C20: after the contact-angle handler has run for the angle c, the four
\* markers are on the equator circle of radius RADIUS at 90 - c, 90 + c,
\* 270 - c and 270 + c degrees; with r the radius and z the offset of the
\* disks, the ten dots are (0, r, z), (0, -r, z), (r, 0, z), (-r, 0, z),
\* (0, 0, z) and the same five at -z, the four chords run from (0, r, z) to
\* (0, -r, z) and from (r, 0, z) to (-r, 0, z), and the same at -z; no
\* marker, dot or chord is at the origin it was created at.
MarkersDotsAndChordsFollowAngle ==
  ContactDone =>
    LET s == TimesRadius(sin(FromZero))
        c == TimesRadius(cos(FromZero))
        r == layout[Obj("paperRight")].radius
        offset == layout[Obj("paperRight")].position[3]
        dot(i) == layout[<<"intersectionDot", i>>].position
        chord(i) == layout[<<"intersectionLine", i>>].positions
        Z(p) == IF p = 0 THEN offset ELSE -offset
    IN /\ NearPoint(layout[<<"marker", 0>>].position, <<s, 0, c>>)
       /\ NearPoint(layout[<<"marker", 1>>].position, <<-s, 0, c>>)
       /\ NearPoint(layout[<<"marker", 2>>].position, <<-s, 0, -c>>)
       /\ NearPoint(layout[<<"marker", 3>>].position, <<s, 0, -c>>)
       /\ r > 0
       /\ offset > 0
       /\ \A p \in {0, 1} :
            /\ dot(5 * p) = <<0, r, Z(p)>>
            /\ dot(5 * p + 1) = <<0, -r, Z(p)>>
            /\ dot(5 * p + 2) = <<r, 0, Z(p)>>
            /\ dot(5 * p + 3) = <<-r, 0, Z(p)>>
            /\ dot(5 * p + 4) = <<0, 0, Z(p)>>
            /\ chord(2 * p) = << <<0, r, Z(p)>>, <<0, -r, Z(p)>> >>
            /\ chord(2 * p + 1) = << <<r, 0, Z(p)>>, <<-r, 0, Z(p)>> >>
       /\ \A o \in Markers \cup IntersectionDots : layout[o].position # Origin
       /\ \A o \in IntersectionLines :
            /\ layout[o].positions[1] # Origin
            /\ layout[o].positions[2] # Origin

\* a + press has run the handler: the centre dots have moved towards the
\* centre of the globe and the markers towards the X axis
DotsMovedIn ==
  /\ ContactDone
  /\ lastCommand = "changeContactAngle"
  /\ ui.contactAngleDeg > DefaultContactAngleDeg
  /\ layout[<<"intersectionDot", 4>>].position[3] < planeZ(DefaultContactAngleDeg)
  /\ layout[<<"intersectionDot", 9>>].position[3] > -planeZ(DefaultContactAngleDeg)
  /\ layout[<<"marker", 0>>].position[1] >
       intersectionRadius(DefaultContactAngleDeg)

(***************************************************************************)
(* The elements placed by the intersection-angle handler                   *)
(***************************************************************************)
\* the intersection-angle handler has finished for the current angle
IntersectionSettled ==
  /\ Built
  /\ Idle
  /\ \A o \in IntersectionObjects :
       shape[o] = <<"intersectionAngle", ui.intersectionAngleDeg>>

\* C21: after the intersection-angle handler has run for the angle a, the
\* arc has SEGMENTS/2 + 1 points with one x, the plane offset
\* RADIUS * SURFACE_OFFSET * sin(a); with r = RADIUS * SURFACE_OFFSET * cos(a),
\* point i is at y = r*cos(t) >= 0 and z = r*sin(t) for t going from -PI/2 to
\* PI/2 in equal steps; the first and the last point are where the two
\* equator-contact dots (x, 0, -r) and (x, 0, r) are, and each guide line
\* runs from one dot to the point with y = -RADIUS and the same x and z.
ArcIsHalfCircle ==
  IntersectionSettled =>
    LET pts == layout[Arc].positions
        n == SEGMENTS \div 2 + 1
        a == ui.intersectionAngleDeg
        x == MulFix(lineRadius, cos(degToRad(9000 - a)))
        r == MulFix(lineRadius, sin(degToRad(9000 - a)))
        dot(i) == layout[<<"intersectionEquatorPoint", i>>].position
        guide(i) == layout[<<"parallelLine", i>>].positions
    IN /\ Len(pts) = n
       /\ \A k \in 1..n :
            \* t = (k - 1) * 360 / SEGMENTS - 90 degrees
            LET away == Abs(((k - 1) * 36000) \div SEGMENTS - 9000)
            IN /\ pts[k][1] = pts[1][1]
               /\ pts[k][2] >= 0
               /\ Near(pts[k][2], MulFix(r, sin(degToRad(9000 - away))))
               /\ Near(Abs(pts[k][3]), MulFix(r, cos(degToRad(9000 - away))))
               /\ 4 * (k - 1) < SEGMENTS => pts[k][3] <= 0
               /\ 4 * (k - 1) > SEGMENTS => pts[k][3] >= 0
               /\ k > 1 => pts[k][3] >= pts[k - 1][3]
       /\ Near(pts[1][1], x)
       /\ NearPoint(pts[1], <<x, 0, -r>>)
       /\ NearPoint(pts[n], <<x, 0, r>>)
       /\ NearPoint(pts[1], dot(1))
       /\ NearPoint(pts[n], dot(0))
       /\ \A i \in {0, 1} :
            /\ guide(i)[1] = dot(i)
            /\ guide(i)[2] = <<dot(i)[1], -R, dot(i)[3]>>
            /\ dot(i)[2] = 0

\* a + press has run the handler: the plane is farther out and the arc
\* smaller than at mount
ArcMovedOut ==
  /\ IntersectionSettled
  /\ lastCommand = "changeIntersectionAngle"
  /\ ui.intersectionAngleDeg > DefaultIntersectionAngleDeg
  /\ ui.intersectionAngleDeg < IntersectionMax
  /\ layout[Arc].positions[1][1] > planeX(DefaultIntersectionAngleDeg)
  /\ layout[Arc].positions[SEGMENTS \div 4 + 1][2] > 0
  /\ layout[Arc].positions[SEGMENTS \div 4 + 1][2] <
       arcIntersectionRadius(DefaultIntersectionAngleDeg)

(***************************************************************************)
(* The orientation                                                         *)
(***************************************************************************)
\* x^2 + y^2 + z^2 + w^2 of a quaternion in halves, in quarters
lengthSq(q) ==
  ZAdd(ZAdd(ZMul(q.x, q.x), ZMul(q.y, q.y)),
       ZAdd(ZMul(q.z, q.z), ZMul(q.w, q.w)))

\* x^2 + y^2 + z^2 + w^2 of setFromAxisAngle(axis, deg) for a unit axis and
\* deg in hundredths of a degree: sin^2(deg / 2) + cos^2(deg / 2)
fineLengthSq(deg) ==
  LET half == degToRad(Abs(deg)) \div 2
  IN MulFix(sin(half), sin(half)) + MulFix(cos(half), cos(half))

\* C22: the globe orientation is a unit quaternion in every reachable state:
\* the default orientation has norm 1 and rotateBy, randomFrontRotation and
\* resetOrientation keep the norm at 1.
OrientationIsUnit ==
  /\ lengthSq(defaultQuat) = ZInt(4)
  /\ lengthSq(quaternion) = ZInt(4)
  /\ Near(fineLengthSq(turn.deg), Scale)
  /\ Near(fineLengthSq(ui.stepDeg), Scale)

\* the globe has been turned, by rotateBy or by an accepted random candidate,
\* to an orientation whose components differ from the default ones
TurnedAway ==
  /\ Built
  /\ Idle
  /\ lastCommand \in {"rotateBy", "randomFrontRotation"}
  /\ quaternion # defaultQuat
  /\ quaternion # quaternionBefore
  /\ quaternion.x # ZZero

\* the increment of a turn by deg whole degrees about a local axis
Increment(axis, deg) == setFromAxisAngle(AxisVector(axis), deg)

QuarterTurns == {90, -90, 180}

\* C23: rotateBy(axis, sign) post-multiplies the orientation by the rotation
\* of sign * stepDeg about the axis, which turns the globe about its own
\* axis.  From every orientation reached, two increments about one axis give
\* the same orientation in either order, a turn followed by the opposite
\* turn gives the orientation back, and increments about two different axes
\* give different orientations in the two orders.
RotateByComposesLocally ==
  /\ [](\A axis \in Axes :
          /\ \A d1 \in QuarterTurns, d2 \in QuarterTurns :
               multiply(multiply(quaternion, Increment(axis, d1)),
                        Increment(axis, d2))
                 = multiply(multiply(quaternion, Increment(axis, d2)),
                            Increment(axis, d1))
          /\ \A d \in {90, -90} :
               multiply(multiply(quaternion, Increment(axis, d)),
                        Increment(axis, -d)) = quaternion
          /\ \E other \in Axes \ {axis} :
               multiply(multiply(quaternion, Increment(axis, 90)),
                        Increment(other, 90))
                 # multiply(multiply(quaternion, Increment(other, 90)),
                            Increment(axis, 90)))
  /\ [][\A axis \in Axes, sign \in Signs :
          (rotateBy(axis, sign) /\ "globeRef" \in refs) =>
             IF ui.stepDeg \in ExactSteps
             THEN /\ quaternion' =
                       multiply(quaternion,
                                Increment(axis, sign * (ui.stepDeg \div 100)))
                  /\ turn' = turn
             ELSE /\ quaternion' = quaternion
                  /\ turn'.deg = turn.deg + sign * ui.stepDeg
                  /\ turn'.deg # 0 => turn'.axis = axis]_vars

\* a turn and the opposite turn have brought the globe back to the default
\* orientation
TurnedBack ==
  /\ Built
  /\ lastCommand = "rotateBy"
  /\ quaternion = defaultQuat
  /\ \E axis \in Axes :
       quaternionBefore = multiply(defaultQuat, Increment(axis, 90))

\* C24: rotateBy and randomFrontRotation (the command and every pass of its
\* loop) change nothing but the globe orientation: the parameters and the
\* step sizes, the elements with their geometry objects, radii, positions
\* and vertices, the allocated and disposed buffers and the camera are as
\* before, and no geometry is replaced.
TurnsChangeOrientationOnly ==
  [][lastCommand' \in {"rotateBy", "randomFrontRotation"} =>
       /\ ui' = ui
       /\ children' = children
       /\ geometry' = geometry
       /\ shape' = shape
       /\ layout' = layout
       /\ allocated' = allocated
       /\ disposed' = disposed
       /\ allocs' = allocs
       /\ cameraPosition' = cameraPosition]_vars

\* the random rotation has installed a candidate while the camera was away
\* from its first position, and the elements are the ones the handlers placed
RandomTurnDone ==
  /\ Built
  /\ Idle
  /\ lastCommand = "randomFrontRotation"
  /\ quaternion # quaternionBefore
  /\ cameraPosition # cameraInit
  /\ cameraPosition = cameraBefore
  /\ Installed(Obj("paperLeft"))
  /\ Len(layout[Arc].positions) = SEGMENTS \div 2 + 1

FineReading == [k \in 1..3 |-> IF AxisVector(turn.axis)[k] = 1 THEN turn.deg
                               ELSE 0]

\* C26: the HUD is evaluated only when more than 60 ms have passed since the
\* previous evaluation.  An evaluation stores and publishes the new angles
\* only if the reading of some axis differs from the stored one by more than
\* 0.1 degrees, and leaves them as they are otherwise; anglesRef.current is
\* always the value last given to setAngles.
HudThrottled ==
  /\ [](hud.angles = hud.anglesRef)
  /\ [][hud' # hud =>
          /\ now - hud.lastHUD > HudInterval
          /\ hud'.lastHUD = now
          /\ quaternion = defaultQuat =>
               IF \E k \in 1..3 :
                    Abs(hud.anglesRef[k] - FineReading[k]) > HudThreshold
               THEN hud'.anglesRef = FineReading
               ELSE hud'.anglesRef = hud.anglesRef]_vars

\* a second evaluation found the reading 0.1 degrees from the stored angles,
\* which an earlier evaluation had set, and kept them
HudHeldBack ==
  /\ Built
  /\ hud.lastHUD = now
  /\ hud.lastHUD > 2 * HudInterval
  /\ hud.anglesRef # <<0, 0, 0>>
  /\ hud.anglesRef # FineReading
  /\ \A k \in 1..3 : Abs(hud.anglesRef[k] - FineReading[k]) <= HudThreshold

\* the views the renderer has drawn of the main scene
Renders == {v \in {themeView, frameView} : v # NoView}

\* C27: no render of the main scene draws a disk, a cap or the arc with its
\* empty first geometry, or a marker, dot or line where it was created:
\* every render, the ones of applyTheme during mount included, comes after a
\* run of the contact-angle and of the intersection-angle handler.
NoRenderOfPlaceholders ==
  \A v \in Renders :
    /\ Placeholder \notin v.tags
    /\ \E t \in v.tags : t[1] = "contactAngle"
    /\ \E t \in v.tags : t[1] = "intersectionAngle"

\* the frame loop has drawn the elements the handlers placed, after
\* applyTheme had drawn them as they were created
MountRenderDrewPlaceholders ==
  /\ Built
  /\ Idle
  /\ Placeholder \in themeView.tags
  /\ \A t \in themeView.tags : t[1] \notin {"contactAngle",
                                            "intersectionAngle"}
  /\ frameView # NoView
  /\ Placeholder \notin frameView.tags

\* C28: the renderer never has more than one frame callback: after the two
\* applyAndStart calls of the mount the only one is the second, which took
\* the place of the first, and after the unmount (or when the scene was
\* never built) there is none.
OneFrameLoop ==
  /\ Cardinality(animationLoop) <= 1
  /\ (Built /\ phase = "mounted") => animationLoop = {"second"}
  /\ (phase = "unmounted" \/ ~Built) => animationLoop = {}

\* the loop has drawn a frame and was stopped by the unmount
LoopStopped ==
  /\ phase = "unmounted"
  /\ Built
  /\ frameView # NoView
  /\ animationLoop = {}

\* the x the arc points, the equator-contact dots and the guide lines share
ArcPlaneX == layout[Arc].positions[1][1]

ArcElementsShareX ==
  /\ \A k \in DOMAIN layout[Arc].positions :
       layout[Arc].positions[k][1] = ArcPlaneX
  /\ \A o \in EquatorPoints : layout[o].position[1] = ArcPlaneX
  /\ \A o \in ParallelLines :
       \A k \in 1..2 : layout[o].positions[k][1] = ArcPlaneX

\* C29: after every run of the intersection-angle handler the x of the YZ
\* plane object is the x that all arc points, both equator-contact dots and
\* both guide lines have.
PlaneHasOneOffset ==
  IntersectionSettled =>
    /\ ArcElementsShareX
    /\ Near(layout[Obj("yzPaper")].position[1], ArcPlaneX)

\* the handler has put the arc, the dots and the lines at one x and the
\* plane object nearer to the centre, at that x divided by SURFACE_OFFSET
PlaneInsideArc ==
  /\ IntersectionSettled
  /\ lastCommand = "changeIntersectionAngle"
  /\ ArcElementsShareX
  /\ ArcPlaneX - layout[Obj("yzPaper")].position[1] > Eps
  /\ Near(MulFix(layout[Obj("yzPaper")].position[1], SURFACE_OFFSET * Limb),
          ArcPlaneX)

====
